---- MODULE Spec2Model ----
(***************************************************************************)
(* Model of the eval-hub SDK evaluation client                             *)
(* (src/src/evalhub/client/evaluations.py) talking to the eval-hub job     *)
(* lifecycle server, and of the SDK's OCI artifact adapter                 *)
(* (src/src/evalhub/adapter/oci/adapter.py).  The client and adapter       *)
(* methods are translated from the source; the server's job store,         *)
(* registry, dispatcher and artifact persister and the original OCI        *)
(* persister are not part of the SDK sources and are modelled from the     *)
(* specification (spec.md, sections 4.1 to 4.4).                           *)
(***************************************************************************)
EXTENDS Integers, Sequences, FiniteSets, TLC

\* ------------------------------------------------------------------ bounds
MaxTime == 2
NumBenchmarks == 2
\* capacity of the job store
MaxJobs == 2
\* persist calls made on one adapter
MaxPersists == 2
\* the most test items a pytest session collects
MaxTests == 3

\* ------------------------------------------------------------- input sets
Clients == {"c1", "c2"}
\* the callers that poll; every caller may cancel
Waiters == {"c1"}
\* the ids the store hands out
IdPool == <<"j1", "j2", "j3", "j4">>
StoreIds == {IdPool[i] : i \in 1..MaxJobs}
\* the job the callers of cancel and wait_for_completion follow
StoredJobIds == {"j1"}
UnknownJobIds == {"jx"}
JobIds == StoredJobIds \cup UnknownJobIds
Benchmarks == 1..NumBenchmarks
\* an optional value is the empty set (None) or a singleton
None == {}
Some(v) == {v}
TheValue(o) == CHOOSE v \in o : TRUE
Timeouts == {None} \cup {Some(t) : t \in 0..(MaxTime - 1)}
PollIntervals == {1}

\* ------------------------------------------------------------ JobStatus
PENDING == "pending"
RUNNING == "running"
COMPLETED == "completed"
FAILED == "failed"
CANCELLED == "cancelled"
ABSENT == "absent"
States == {PENDING, RUNNING, COMPLETED, FAILED, CANCELLED}
TerminalStates == {COMPLETED, FAILED, CANCELLED}

\* Python values carry their class; a JobStatus member and an
\* EvaluationJobStatus model are values of different classes.
JobStatus(s) == [type |-> "JobStatus", value |-> s]
EvaluationJobStatus(s) == [type |-> "EvaluationJobStatus", value |-> s]
\* EvaluationJob(resource=..., status=EvaluationJobStatus(state=...), ...):
\* .status is the nested status model, .state is the JobStatus inside it.
EvaluationJob(j, s) == [id |-> j, status |-> EvaluationJobStatus(s)]
JobState(job) == JobStatus(job.status.value)
\* Python ==: objects of unrelated classes (a pydantic model and an enum
\* member) are never equal; objects of one class compare by value.
PyEq(a, b) == a.type = b.type /\ a.value = b.value
\* Python "x in [a, b, c]"
PyIn(x, list) == \E i \in 1..Len(list) : PyEq(x, list[i])

\* ------------------------------------------------------------ HTTP layer
NoBody == [kind |-> "none"]
NotJson == [kind |-> "notjson"]
JsonList == [kind |-> "list"]
JsonObject(msg) == [kind |-> "object", message |-> msg]
JobBody(j, s) == [kind |-> "job", job |-> j, state |-> s]
\* the server's cancel refusal "The job <j> can not be cancelled because it is '<s>'."
CanNotCancelMessage(j, s) == Some([job |-> j, state |-> s])
Response(code, body) == [status_code |-> code, body |-> body]
Request(method, j) == [method |-> method, job |-> j]
\* a request to the collection /evaluations/jobs: the payload is the
\* JSON body of a POST or the query parameters of a GET
CollectionRequest(method, payload) ==
    [method |-> method, job |-> "", payload |-> payload]
JobsListBody(items) == [kind |-> "jobs", items |-> items]
\* a GET of another resource: the path after the API base, as its
\* segments, and the query parameters
ResourceRequest(path, params) ==
    [method |-> "GET", job |-> "", path |-> path, payload |-> params]
ItemsBody(kind, items) == [kind |-> kind, items |-> items]
NoResponse == Response(0, NoBody)
\* the request never got an HTTP answer (httpx.ConnectError)
ConnectErrorResponse == Response(0, [kind |-> "connect_error"])
\* responses produced between client and server without the job core
FaultResponses ==
    { Response(500, NotJson), Response(400, NotJson),
      Response(409, JsonObject(None)), Response(400, JsonList) }

VARIABLES
    jobs,           \* server: job id -> state (ABSENT before creation)
    bench,          \* server: job id -> benchmark -> "todo" | "inflight" | "success" | "error"
    storeError,     \* server: the error surfaced by the last call of the store's
                    \* transition primitive or of persist
    order,          \* server: the ids of the jobs, in order of creation
    artifacts,      \* server: job -> the ArtifactRecords attached to it
    registry_url,   \* adapter: OCIArtifactPersister.registry_url, once constructed
    persisted,      \* adapter: the persist calls made, with what each handed to the push
    providers,      \* server: the provider registry, before and after load
    suite,          \* pytest: the session's --e2e option and its collected items
    fixture,        \* e2e: the server fixture in use, its probes and its process
    script,         \* fetch script: main's position, what it ran and sent, its exit
    now,            \* wall clock, in seconds
    pc,             \* client -> "idle" | "req" | "resp" | "sleep" | "done"
    op,             \* client -> the SDK call in progress
    sent,           \* client -> requests issued by the call in progress
    resp,           \* client -> the last response received
    result,         \* client -> outcome of the call
    handled         \* client -> how the job core saw the request in flight

vars == <<jobs, bench, storeError, order, artifacts, registry_url, persisted,
          providers, suite, fixture, script, now, pc, op, sent, resp, result, handled>>
serverVars == <<jobs, bench, storeError, order, artifacts>>
adapterVars == <<registry_url, persisted>>
toolVars == <<suite, fixture, script>>
otherVars == <<providers, toolVars>>
\* the registry before load; after a load it is "loaded" with its
\* providers, or "ConfigError" with none
Unloaded == [status |-> "unloaded", items |-> <<>>]
\* the names an item's keywords are drawn from: marker names
Keywords == {"e2e", "asyncio"}
\* pytest.mark.skip(reason=...), the two markers the hook builds
skip_e2e == [name |-> "skip", reason |-> "E2E tests require --e2e flag"]
skip_non_e2e ==
    [name |-> "skip",
     reason |-> "Non-E2E tests are skipped when --e2e flag is used"]
\* a session before collection; --e2e is store_true with default False
NoSession == [stage |-> "start", e2e_flag |-> FALSE, items |-> <<>>]
\* the two server fixtures of the e2e tests
Fixtures == {"evalhub_server", "evalhub_server_with_real_config"}
\* how a GET of /health ends: a status code, or an exception of httpx
Answered(code) == [kind |-> "response", status_code |-> code]
Failed(exc) == [kind |-> "raise", exc |-> exc]
ProbeOutcomes ==
    {Answered(200), Answered(503), Failed("ConnectError"),
     Failed("TimeoutException")}
max_retries == 5
\* no fixture requested yet
NoFixture == [name |-> "none", stage |-> "unused", probes |-> <<>>,
              sleeps |-> 0, process |-> "none"]
\* the steps of the fetch script's main, in the order of its body
Steps == {"detect_platform", "get_github_token", "fetch_latest_workflow_run",
          "download_artifact", "install_wheel"}
\* the script before main is called
NotRun == [stage |-> "idle", env |-> <<>>, steps |-> <<>>, requests |-> <<>>,
           token |-> {}, installed |-> FALSE, code |-> {}]
clientVars == <<pc, op, sent, resp, result>>
NotHandled == [state |-> "none", overlap |-> FALSE]

NoOp == [name |-> "none", job_id |-> "jx", timeout |-> None,
         poll_interval |-> 1, start_time |-> 0, wake |-> 0, args |-> <<>>]
NoResult == [kind |-> "none"]

\* the record of a pushed artifact, as attached to its job
ArtifactRecord(j) == [job |-> j]

\* the shape of the state
TypeOK ==
    /\ jobs \in [StoreIds -> States \cup {ABSENT}]
    /\ order \in Seq(StoreIds)
    /\ \A j \in StoreIds :
          jobs[j] # ABSENT <=> \E i \in 1..Len(order) : order[i] = j
    /\ \A i, k \in 1..Len(order) : order[i] = order[k] => i = k
    /\ bench \in [StoreIds ->
                    [Benchmarks -> {"todo", "inflight", "success", "error"}]]
    /\ storeError \in {"none", "InvalidTransitionError", "PersistenceError"}
    /\ artifacts \in [StoreIds -> Seq({ArtifactRecord(j) : j \in StoreIds})]
    /\ registry_url # None =>
          /\ Cardinality(registry_url) = 1
          /\ TheValue(registry_url) \in STRING \ {""}
    /\ Len(persisted) <= MaxPersists
    /\ \A i \in 1..Len(persisted) :
          /\ persisted[i].call.at \in 0..MaxTime
          /\ persisted[i].outcome.kind \in {"return", "raise"}
          /\ persisted[i].response # None => persisted[i].push # None
    /\ providers.status \in {"unloaded", "loaded", "ConfigError"}
    /\ script.stage \in {"idle"} \cup Steps \cup {"exited"}
    /\ script.code \in {None, Some(0), Some(1)}
    /\ \A i \in 1..Len(script.steps) :
          script.steps[i].name \in Steps /\ script.steps[i].ok \in BOOLEAN
    /\ \A i \in 1..Len(script.requests) :
          script.requests[i] \in {"get_runs", "get_artifacts", "archive_download"}
    /\ fixture.name \in Fixtures \cup {"none"}
    /\ fixture.stage \in {"unused", "probing", "yielded", "raised", "closed"}
    /\ Len(fixture.probes) <= max_retries
    /\ \A i \in 1..Len(fixture.probes) : fixture.probes[i] \in ProbeOutcomes
    /\ fixture.sleeps \in 0..max_retries
    /\ fixture.process \in {"none", "running", "terminated"}
    /\ suite.stage \in {"start", "collected", "selected"}
    /\ suite.e2e_flag \in BOOLEAN
    /\ Len(suite.items) <= MaxTests
    /\ \A i \in 1..Len(suite.items) :
          /\ suite.items[i].keywords \subseteq Keywords
          /\ \A k \in 1..Len(suite.items[i].own_markers) :
                suite.items[i].own_markers[k] \in {skip_e2e, skip_non_e2e}
    /\ providers.status # "loaded" => providers.items = <<>>
    /\ now \in 0..MaxTime
    /\ pc \in [Clients -> {"idle", "req", "resp", "sleep", "done"}]
    /\ \A c \in Clients :
          /\ op[c].name \in {"none", "cancel", "wait", "submit", "list", "get",
                              "collections.list", "collections.get",
                              "providers.list", "list_benchmarks"}
          /\ op[c].job_id \in JobIds
          /\ op[c].timeout \in Timeouts
          /\ op[c].poll_interval \in PollIntervals
          /\ op[c].start_time \in 0..MaxTime
          /\ \A i \in 1..Len(sent[c]) :
                /\ sent[c][i].method \in {"GET", "DELETE", "POST"}
                /\ sent[c][i].job \in JobIds \cup {""}
          /\ resp[c].status_code \in {0, 200, 201, 400, 404, 409, 500, 501}
          /\ result[c].kind \in {"none", "return", "raise"}
          /\ handled[c].state \in States \cup {ABSENT, "none"}
          /\ pc[c] \in {"req", "resp", "sleep", "done"} <=> op[c].name # "none"
          /\ pc[c] = "sleep" => op[c].name = "wait"

Init ==
    /\ \E s \in {ABSENT, PENDING} :
          /\ jobs = [j \in StoreIds |-> IF j \in StoredJobIds THEN s ELSE ABSENT]
          /\ order = IF s = ABSENT THEN <<>> ELSE <<"j1">>
    /\ bench = [j \in StoreIds |-> [b \in Benchmarks |-> "todo"]]
    /\ storeError = "none"
    /\ artifacts = [j \in StoreIds |-> <<>>]
    /\ registry_url = None
    /\ persisted = <<>>
    /\ providers = Unloaded
    /\ suite = NoSession
    /\ fixture = NoFixture
    /\ script = NotRun
    /\ now = 0
    /\ pc = [c \in Clients |-> "idle"]
    /\ op = [c \in Clients |-> NoOp]
    /\ sent = [c \in Clients |-> <<>>]
    /\ resp = [c \in Clients |-> NoResponse]
    /\ result = [c \in Clients |-> NoResult]
    /\ handled = [c \in Clients |-> NotHandled]

\* ------------------------------------------------------------ job store
Last(seq) == seq[Len(seq)]
Exists(j) == j \in StoreIds /\ jobs[j] # ABSENT

\* variant: a store that lets every transition through
StoreTransitionOk_unchecked(j, from_states) == TRUE

\* transition(id, from_states, to_state, mutation): the atomic check
StoreTransitionOk(j, from_states) == jobs[j] \in from_states

\* One call of the store's transition primitive; mutated is the benchmark
\* table the mutation produces.  A refused call (InvalidTransitionError)
\* leaves the job as it was.
StoreTransition(j, from_states, to_state, mutated) ==
    /\ storeError' = IF StoreTransitionOk(j, from_states)
                     THEN "none" ELSE "InvalidTransitionError"
    /\ IF StoreTransitionOk(j, from_states)
       THEN /\ jobs' = [jobs EXCEPT ![j] = to_state]
            /\ bench' = [bench EXCEPT ![j] = mutated]
       ELSE UNCHANGED <<jobs, bench>>
    /\ UNCHANGED <<order, artifacts>>

\* create(job): a submission accepted by the server
StoreCreate(j) ==
    /\ j \in StoreIds
    /\ jobs[j] = ABSENT
    /\ jobs' = [jobs EXCEPT ![j] = PENDING]
    /\ order' = Append(order, j)
    /\ UNCHANGED <<adapterVars, otherVars, bench, storeError, artifacts, now, clientVars, handled>>

AllTerminal(j) == \A b \in Benchmarks : bench[j][b] \in {"success", "error"}
AnyError(j) == \E b \in Benchmarks : bench[j][b] = "error"

\* PENDING --(dispatch begins)--> RUNNING; a retried dispatch is refused
Dispatch(j) ==
    /\ Exists(j)
    /\ StoreTransition(j, {PENDING}, RUNNING,
                       [b \in Benchmarks |-> "inflight"])
    /\ UNCHANGED <<adapterVars, otherVars, now, clientVars, handled>>

\* a benchmark invocation ends and appends its EvaluationResult
BenchmarkDone(j, b, outcome) ==
    /\ Exists(j)
    /\ bench[j][b] = "inflight"
    /\ StoreTransition(j, {RUNNING}, RUNNING,
                       [bench[j] EXCEPT ![b] = outcome])
    /\ UNCHANGED <<adapterVars, otherVars, now, clientVars, handled>>

\* RUNNING --(all benchmarks reached a terminal outcome)--> COMPLETED
Complete(j) ==
    /\ Exists(j)
    /\ AllTerminal(j)
    /\ StoreTransition(j, {RUNNING}, COMPLETED, bench[j])
    /\ UNCHANGED <<adapterVars, otherVars, now, clientVars, handled>>

\* variant: the job fails the moment one benchmark fails, while the
\* others are still running
Fail_early(j) ==
    /\ Exists(j)
    /\ AnyError(j)
    /\ StoreTransition(j, {RUNNING}, FAILED, bench[j])
    /\ UNCHANGED <<adapterVars, otherVars, now, clientVars, handled>>

\* RUNNING --(a benchmark failed, fail-fast)--> FAILED, taken at the
\* barrier: a terminal non-cancelled state is reached only when every
\* invocation has its outcome
Fail(j) ==
    /\ Exists(j)
    /\ AnyError(j)
    /\ AllTerminal(j)
    /\ StoreTransition(j, {RUNNING}, FAILED, bench[j])
    /\ UNCHANGED <<adapterVars, otherVars, now, clientVars, handled>>

\* ---------------------------------------------------- artifact persister
\* variant: every successful push attaches a record
PersistArtifact_always(j, pushed) ==
    /\ Exists(j)
    /\ jobs[j] = COMPLETED
    /\ artifacts' = IF pushed
                    THEN [artifacts EXCEPT ![j] = Append(@, ArtifactRecord(j))]
                    ELSE artifacts
    /\ storeError' = IF pushed THEN "none" ELSE "PersistenceError"
    /\ UNCHANGED <<jobs, bench, order, adapterVars, otherVars, now, clientVars, handled>>

\* variant: a failed push takes the job out of its completed state
PersistArtifact_reverting(j, pushed) ==
    /\ Exists(j)
    /\ jobs[j] = COMPLETED
    /\ artifacts' = IF pushed /\ artifacts[j] = <<>>
                    THEN [artifacts EXCEPT ![j] = <<ArtifactRecord(j)>>]
                    ELSE artifacts
    /\ storeError' = IF pushed THEN "none" ELSE "PersistenceError"
    /\ jobs' = IF pushed THEN jobs ELSE [jobs EXCEPT ![j] = FAILED]
    /\ UNCHANGED <<bench, order, adapterVars, otherVars, now, clientVars, handled>>

\* persist(job), on the completion transition or re-invoked by an
\* operator: the push may fail, which is surfaced as PersistenceError and
\* leaves the job as it is; a job that has its record keeps it
PersistArtifact(j, pushed) ==
    /\ Exists(j)
    /\ jobs[j] = COMPLETED
    /\ artifacts' = IF pushed /\ artifacts[j] = <<>>
                    THEN [artifacts EXCEPT ![j] = <<ArtifactRecord(j)>>]
                    ELSE artifacts
    /\ storeError' = IF pushed THEN "none" ELSE "PersistenceError"
    /\ UNCHANGED <<jobs, bench, order, adapterVars, otherVars, now, clientVars, handled>>

\* ---------------------------------------------------- provider registry
BenchmarkConfig(id, provider_id) == [id |-> id, provider_id |-> provider_id]
\* the benchmarks the loaded providers expose
Catalog == {BenchmarkConfig("b1", "p1"), BenchmarkConfig("b2", "p1")}
\* resolve(benchmark_id, provider_id) succeeds
Resolves(cfg) ==
    \E e \in Catalog : e.provider_id = cfg.provider_id /\ e.id = cfg.id

\* ------------------------------------------------------------ job list
Digits == <<"0", "1", "2", "3", "4", "5", "6", "7", "8", "9">>
RECURSIVE Str(_)
\* str(n) of a natural number: its decimal digits
Str(n) == IF n < 10 THEN <<Digits[n + 1]>>
          ELSE Str(n \div 10) \o <<Digits[(n % 10) + 1]>>
RECURSIVE ParseInt(_)
\* the number a query parameter of decimal digits stands for
ParseInt(s) ==
    IF s = <<>> THEN 0
    ELSE 10 * ParseInt(SubSeq(s, 1, Len(s) - 1))
         + (CHOOSE d \in 0..9 : Digits[d + 1] = s[Len(s)])
Min(a, b) == IF a <= b THEN a ELSE b
NoParams == [status_filter |-> None, limit |-> None]

\* list(status_filter, limit): newest first, the jobs in exactly the
\* state asked for, at most limit of them
ListItems(params) ==
    LET newest == [i \in 1..Len(order) |-> order[Len(order) + 1 - i]]
        keep(j) == \/ params.status_filter = None
                   \/ jobs[j] = TheValue(params.status_filter)
        filtered == SelectSeq(newest, keep)
        n == IF params.limit = None THEN Len(filtered)
             ELSE Min(ParseInt(TheValue(params.limit)), Len(filtered))
    IN  [i \in 1..n |-> [job |-> filtered[i], state |-> jobs[filtered[i]]]]

\* -------------------------------------------------------- HTTP handlers
\* GET /evaluations/jobs/{id}
HandleGet(c, j) ==
    /\ resp' = [resp EXCEPT ![c] =
                  IF Exists(j) THEN Response(200, JobBody(j, jobs[j]))
                  ELSE Response(404, JsonObject(None))]
    /\ UNCHANGED serverVars

\* variant: a cancel handler that only refuses finished evaluations and
\* so cancels a cancelled job again
HandleDelete_recancel(c, j) ==
    IF ~Exists(j)
    THEN /\ resp' = [resp EXCEPT ![c] = Response(404, JsonObject(None))]
         /\ UNCHANGED serverVars
    ELSE /\ StoreTransition(j, {PENDING, RUNNING, CANCELLED}, CANCELLED, bench[j])
         /\ \E code \in {400, 409} :
              resp' = [resp EXCEPT ![c] =
                  IF jobs[j] \in {PENDING, RUNNING, CANCELLED}
                  THEN Response(200, NoBody)
                  ELSE Response(code, JsonObject(CanNotCancelMessage(j, jobs[j])))]

\* DELETE /evaluations/jobs/{id}
HandleDelete(c, j) ==
    IF ~Exists(j)
    THEN /\ resp' = [resp EXCEPT ![c] = Response(404, JsonObject(None))]
         /\ UNCHANGED serverVars
    ELSE /\ StoreTransition(j, {PENDING, RUNNING}, CANCELLED, bench[j])
         /\ \E code \in {400, 409} :
              resp' = [resp EXCEPT ![c] =
                  IF StoreTransitionOk(j, {PENDING, RUNNING})
                  THEN Response(200, NoBody)
                  ELSE Response(code, JsonObject(CanNotCancelMessage(j, jobs[j])))]

\* GET /evaluations/jobs
HandleList(c, params) ==
    /\ resp' = [resp EXCEPT ![c] = Response(200, JobsListBody(ListItems(params)))]
    /\ UNCHANGED serverVars

UnresolvedBenchmarkError == [error |-> "UnresolvedBenchmarkError"]

\* variant: only the first benchmark of the submission is resolved
HandlePost_first(c, request) ==
    IF Resolves(request.benchmarks[1])
    THEN \E j \in StoreIds :
            /\ jobs[j] = ABSENT
            /\ jobs' = [jobs EXCEPT ![j] = PENDING]
            /\ order' = Append(order, j)
            /\ resp' = [resp EXCEPT ![c] = Response(201, JobBody(j, PENDING))]
            /\ UNCHANGED <<bench, storeError, artifacts>>
    ELSE /\ resp' = [resp EXCEPT ![c] =
                       Response(400, JsonObject(Some(UnresolvedBenchmarkError)))]
         /\ UNCHANGED serverVars

\* POST /evaluations/jobs: every BenchmarkConfig is resolved against the
\* registry before anything is created
HandlePost(c, request) ==
    IF \A i \in 1..Len(request.benchmarks) : Resolves(request.benchmarks[i])
    THEN \E j \in StoreIds :
            /\ jobs[j] = ABSENT
            /\ jobs' = [jobs EXCEPT ![j] = PENDING]
            /\ order' = Append(order, j)
            /\ resp' = [resp EXCEPT ![c] = Response(201, JobBody(j, PENDING))]
            /\ UNCHANGED <<bench, storeError, artifacts>>
    ELSE /\ resp' = [resp EXCEPT ![c] =
                       Response(400, JsonObject(Some(UnresolvedBenchmarkError)))]
         /\ UNCHANGED serverVars

\* a provider of the catalog and the benchmarks it exposes
Provider(id, benchmarks) == [id |-> id, benchmarks |-> benchmarks]
Benchmark(id, category) == [id |-> id, category |-> category]
HasDuplicateIds(entries) ==
    \E i, k \in 1..Len(entries) : i # k /\ entries[i].id = entries[k].id

\* variant: a catalog with a repeated provider id is served as it is
load_lenient(entries) ==
    /\ providers.status = "unloaded"
    /\ providers' = [status |-> "loaded", items |-> entries]
    /\ UNCHANGED <<serverVars, adapterVars, toolVars, now, clientVars, handled>>

\* load(catalog): a repeated provider id is a ConfigError and the
\* registry serves nothing
load(entries) ==
    /\ providers.status = "unloaded"
    /\ providers' = IF HasDuplicateIds(entries)
                    THEN [status |-> "ConfigError", items |-> <<>>]
                    ELSE [status |-> "loaded", items |-> entries]
    /\ UNCHANGED <<serverVars, adapterVars, toolVars, now, clientVars, handled>>

RECURSIVE BenchmarkItems(_)
\* the benchmarks of the providers, in catalog order, each with the id
\* of its provider
BenchmarkItems(entries) ==
    IF entries = <<>> THEN <<>>
    ELSE [i \in 1..Len(entries[1].benchmarks) |->
            [id |-> entries[1].benchmarks[i].id,
             provider_id |-> entries[1].id,
             category |-> entries[1].benchmarks[i].category]]
         \o BenchmarkItems(SubSeq(entries, 2, Len(entries)))

\* GET /evaluations/benchmarks with optional provider_id, category, limit
HandleBenchmarks(c, params) ==
    LET keep(b) == /\ params.provider_id # None =>
                         b.provider_id = TheValue(params.provider_id)
                   /\ params.category # None =>
                         b.category = TheValue(params.category)
        filtered == SelectSeq(BenchmarkItems(providers.items), keep)
        n == IF params.limit = None THEN Len(filtered)
             ELSE Min(ParseInt(TheValue(params.limit)), Len(filtered))
    IN  resp' = [resp EXCEPT ![c] =
                   Response(200, ItemsBody("benchmarks", SubSeq(filtered, 1, n)))]

\* GET /evaluations/providers
HandleProviders(c) ==
    resp' = [resp EXCEPT ![c] =
               Response(200, ItemsBody("providers", providers.items))]

\* GET /evaluations/collections and /evaluations/collections/{id}: not
\* implemented
HandleCollections(c) ==
    resp' = [resp EXCEPT ![c] = Response(501, JsonObject(None))]

\* a GET outside the jobs: served once the registry is loaded
HandleResource(c, r) ==
    /\ providers.status = "loaded"
    /\ IF r.path[2] = "collections" THEN HandleCollections(c)
       ELSE IF r.path[2] = "providers" THEN HandleProviders(c)
       ELSE HandleBenchmarks(c, r.payload)
    /\ UNCHANGED serverVars

\* what the job core saw when it took the request of c: the state of the
\* job, and whether another request for the same job was in flight
Seen(c, r) ==
    [state |-> IF Exists(r.job) THEN jobs[r.job] ELSE ABSENT,
     overlap |-> \E d \in Clients \ {c} :
                    pc[d] = "req" /\ Last(sent[d]) = r]

\* the server answers a request in flight
ServerHandle(c) ==
    /\ pc[c] = "req"
    /\ LET r == Last(sent[c]) IN
          IF "path" \in DOMAIN r THEN HandleResource(c, r)
          ELSE IF r.job = ""
          THEN IF r.method = "POST" THEN HandlePost(c, r.payload)
               ELSE HandleList(c, r.payload)
          ELSE IF r.method = "GET" THEN HandleGet(c, r.job)
               ELSE HandleDelete(c, r.job)
    /\ pc' = [pc EXCEPT ![c] = "resp"]
    /\ handled' = [handled EXCEPT ![c] = Seen(c, Last(sent[c]))]
    /\ UNCHANGED <<adapterVars, otherVars, now, op, sent, result>>

\* the failures tried on a request: the error bodies only matter to
\* cancel, which is the one call that reads them
FaultsFor(method) ==
    IF method = "DELETE" THEN FaultResponses \cup {ConnectErrorResponse}
    ELSE {Response(500, NotJson), ConnectErrorResponse}

\* the request fails before it reaches the job core
Fault(c) ==
    /\ pc[c] = "req"
    /\ \E r \in FaultsFor(Last(sent[c]).method) :
          resp' = [resp EXCEPT ![c] = r]
    /\ pc' = [pc EXCEPT ![c] = "resp"]
    /\ UNCHANGED <<adapterVars, otherVars, serverVars, now, op, sent, result, handled>>

Tick ==
    /\ now < MaxTime
    /\ now' = now + 1
    /\ UNCHANGED <<adapterVars, otherVars, serverVars, clientVars, handled>>

\* ------------------------------------------------------ client: results
Return(v) == [kind |-> "return", value |-> v]
Raise(e) == [kind |-> "raise", exc |-> e]
HTTPStatusError(r) == [type |-> "HTTPStatusError", response |-> r]
ConnectError == [type |-> "ConnectError"]
ValidationError == [type |-> "ValidationError"]
TimeoutError(job_id, timeout) ==
    [type |-> "TimeoutError", job_id |-> job_id, timeout |-> timeout]
JobNotFoundError(job_id, cause) ==
    [type |-> "JobNotFoundError", job_id |-> job_id, cause |-> cause]
JobCanNotBeCancelledError(job_id, reason, cause) ==
    [type |-> "JobCanNotBeCancelledError", job_id |-> job_id,
     reason |-> reason, cause |-> cause]

\* _request_get / _request_delete: the response, or the error the
\* transport raises for it
_request(r) ==
    IF r = ConnectErrorResponse THEN Raise(ConnectError)
    ELSE IF r.status_code >= 400 THEN Raise(HTTPStatusError(r))
    ELSE Return(r)

\* variant: the error body is never read
ReasonOf_unread(r) == None

\* e.response.json() followed by body.get("message"); anything the two
\* raise is swallowed and leaves reason = None
ReasonOf(r) ==
    IF r.body.kind = "object" THEN r.body.message ELSE None

\* get_job: EvaluationJob(**response.json())
get_job(r) ==
    LET got == _request(r) IN
    IF got.kind = "raise" THEN got
    ELSE IF r.body.kind = "job"
         THEN Return(EvaluationJob(r.body.job, r.body.state))
         ELSE Raise(ValidationError)

\* JobSubmissionRequest(model=..., benchmarks=[...])
JobSubmissionRequest(benchmarks) ==
    [type |-> "JobSubmissionRequest", benchmarks |-> benchmarks]
\* request.model_dump(): the dict of the model's fields
model_dump(request) == [benchmarks |-> request.benchmarks]

\* submit: EvaluationJob(**response.json())
submit(r) ==
    LET got == _request(r) IN
    IF got.kind = "raise" THEN got
    ELSE IF r.body.kind = "job"
         THEN Return(EvaluationJob(r.body.job, r.body.state))
         ELSE Raise(ValidationError)

\* Python truthiness of "limit": None and 0 are false
TruthyLimit(limit) == limit # None /\ TheValue(limit) # 0

\* variant: the status is not passed on
list_params_unfiltered(status, limit) ==
    [status_filter |-> None,
     limit |-> IF TruthyLimit(limit) THEN Some(Str(TheValue(limit))) ELSE None]

\* list: the query parameters; a JobStatus member is always true
list_params(status, limit) ==
    [status_filter |-> IF status # None THEN Some(TheValue(status).value)
                       ELSE None,
     limit |-> IF TruthyLimit(limit) THEN Some(Str(TheValue(limit))) ELSE None]

\* list: JobsList(**response.json()).items
list_items(r) ==
    LET got == _request(r) IN
    IF got.kind = "raise" THEN got
    ELSE IF r.body.kind = "jobs"
         THEN Return([i \in 1..Len(r.body.items) |->
                        EvaluationJob(r.body.items[i].job, r.body.items[i].state)])
         ELSE Raise(ValidationError)

\* variant: an error answer is reported as an empty collection list
collections_list_empty(r) ==
    LET got == _request(r) IN
    IF got.kind = "raise" THEN Return(<<>>)
    ELSE IF r.body.kind = "collections" THEN Return(r.body.items)
         ELSE Raise(ValidationError)

\* collections.list: CollectionList(**response.json()).items
collections_list(r) ==
    LET got == _request(r) IN
    IF got.kind = "raise" THEN got
    ELSE IF r.body.kind = "collections" THEN Return(r.body.items)
         ELSE Raise(ValidationError)

\* collections.get: Collection(**response.json())
collections_get(r) ==
    LET got == _request(r) IN
    IF got.kind = "raise" THEN got
    ELSE IF r.body.kind = "collection" THEN Return(r.body.item)
         ELSE Raise(ValidationError)

\* providers.list: ProviderList(**response.json()).items
providers_list(r) ==
    LET got == _request(r) IN
    IF got.kind = "raise" THEN got
    ELSE IF r.body.kind = "providers" THEN Return(r.body.items)
         ELSE Raise(ValidationError)

\* Python truthiness of a str | None argument: None and "" are false
TruthyStr(s) == s # None /\ TheValue(s) # ""

\* list_benchmarks: the query parameters
list_benchmarks_params(provider_id, category, limit) ==
    [provider_id |-> IF TruthyStr(provider_id) THEN provider_id ELSE None,
     category |-> IF TruthyStr(category) THEN category ELSE None,
     limit |-> IF TruthyLimit(limit) THEN Some(Str(TheValue(limit))) ELSE None]

\* dict.get(key, default)
Get(d, key, default) == IF key \in DOMAIN d THEN d[key] ELSE default

\* BenchmarkInfo(benchmark_id=item.get("id", item.get("benchmark_id")), ...)
BenchmarkInfo(item) ==
    [benchmark_id |-> Get(item, "id", Get(item, "benchmark_id", None)),
     category |-> Get(item, "category", None),
     supports_few_shot |-> TRUE]

\* list_benchmarks: one BenchmarkInfo per item of data.get("items", [])
list_benchmarks(r) ==
    LET got == _request(r) IN
    IF got.kind = "raise" THEN got
    ELSE IF r.body.kind = "benchmarks"
         THEN Return([i \in 1..Len(r.body.items) |-> BenchmarkInfo(r.body.items[i])])
         ELSE IF r.body.kind = "object" THEN Return(<<>>)
         ELSE Raise([type |-> "AttributeError"])

\* variant: only 400 is taken as "can not be cancelled"
cancel_only_400(job_id, r) ==
    LET got == _request(r) IN
    IF got.kind = "return" THEN Return(TRUE)
    ELSE IF got.exc.type = "HTTPStatusError"
         THEN IF r.status_code = 404
              THEN Raise(JobNotFoundError(job_id, got.exc))
              ELSE IF r.status_code = 400
                   THEN Raise(JobCanNotBeCancelledError(job_id, ReasonOf(r), got.exc))
                   ELSE got
         ELSE got

\* variant: 404 is not told apart from the other client errors
cancel_404_as_conflict(job_id, r) ==
    LET got == _request(r) IN
    IF got.kind = "return" THEN Return(TRUE)
    ELSE IF got.exc.type = "HTTPStatusError"
         THEN IF r.status_code \in {400, 404, 409}
              THEN Raise(JobCanNotBeCancelledError(job_id, ReasonOf(r), got.exc))
              ELSE got
         ELSE got

\* variant: the failure to parse the error body is not caught
cancel_parse_raises(job_id, r) ==
    LET got == _request(r) IN
    IF got.kind = "return" THEN Return(TRUE)
    ELSE IF got.exc.type = "HTTPStatusError"
         THEN IF r.status_code = 404
              THEN Raise(JobNotFoundError(job_id, got.exc))
              ELSE IF r.status_code \in {400, 409}
                   THEN IF r.body.kind = "object"
                        THEN Raise(JobCanNotBeCancelledError(job_id, ReasonOf(r), got.exc))
                        ELSE Raise([type |-> "ValueError"])
                   ELSE got
         ELSE got

\* variant: other status errors are reported as False
cancel_returns_false(job_id, r) ==
    LET got == _request(r) IN
    IF got.kind = "return" THEN Return(TRUE)
    ELSE IF got.exc.type = "HTTPStatusError"
         THEN IF r.status_code = 404
              THEN Raise(JobNotFoundError(job_id, got.exc))
              ELSE IF r.status_code \in {400, 409}
                   THEN Raise(JobCanNotBeCancelledError(job_id, ReasonOf(r), got.exc))
                   ELSE Return(FALSE)
         ELSE got

\* cancel: what the call makes of the answer to its DELETE
cancel(job_id, r) ==
    LET got == _request(r) IN
    IF got.kind = "return" THEN Return(TRUE)
    ELSE IF got.exc.type = "HTTPStatusError"
         THEN IF r.status_code = 404
              THEN Raise(JobNotFoundError(job_id, got.exc))
              ELSE IF r.status_code \in {400, 409}
                   THEN Raise(JobCanNotBeCancelledError(job_id, ReasonOf(r), got.exc))
                   ELSE got
         ELSE got

TerminalList == <<JobStatus(COMPLETED), JobStatus(FAILED), JobStatus(CANCELLED)>>
\* Python truthiness of "timeout": None and 0 are false
Truthy(timeout) == timeout # None /\ TheValue(timeout) # 0

\* variant: a failed get is retried after the poll interval
wait_for_completion_retrying(o, r, t) ==
    LET got == get_job(r) IN
    IF got.kind = "raise" THEN [kind |-> "sleep"]
    ELSE IF PyIn(got.value.status, TerminalList) THEN Return(got.value)
    ELSE IF Truthy(o.timeout) /\ (t - o.start_time) > TheValue(o.timeout)
         THEN Raise(TimeoutError(o.job_id, o.timeout))
         ELSE [kind |-> "sleep"]

\* one pass of the "while True" body of wait_for_completion after the
\* get has been answered: "return", "raise" or "sleep"
wait_for_completion(o, r, t) ==
    LET got == get_job(r) IN
    IF got.kind = "raise" THEN got
    ELSE IF PyIn(got.value.status, TerminalList) THEN Return(got.value)
    ELSE IF Truthy(o.timeout) /\ (t - o.start_time) > TheValue(o.timeout)
         THEN Raise(TimeoutError(o.job_id, o.timeout))
         ELSE [kind |-> "sleep"]

\* ------------------------------------------------------ client: actions
cancel_call(c, j) ==
    /\ pc[c] = "idle"
    /\ op' = [op EXCEPT ![c] = [NoOp EXCEPT !.name = "cancel", !.job_id = j]]
    /\ sent' = [sent EXCEPT ![c] = <<Request("DELETE", j)>>]
    /\ pc' = [pc EXCEPT ![c] = "req"]
    /\ UNCHANGED <<adapterVars, otherVars, serverVars, now, resp, result, handled>>

cancel_return(c) ==
    /\ pc[c] = "resp"
    /\ op[c].name = "cancel"
    /\ result' = [result EXCEPT ![c] = cancel(op[c].job_id, resp[c])]
    /\ pc' = [pc EXCEPT ![c] = "done"]
    /\ UNCHANGED <<adapterVars, otherVars, serverVars, now, op, sent, resp, handled>>

submit_call(c, request) ==
    /\ pc[c] = "idle"
    /\ op' = [op EXCEPT ![c] = [NoOp EXCEPT !.name = "submit", !.args = request]]
    /\ sent' = [sent EXCEPT ![c] =
                  <<CollectionRequest("POST", model_dump(request))>>]
    /\ pc' = [pc EXCEPT ![c] = "req"]
    /\ UNCHANGED <<adapterVars, otherVars, serverVars, now, resp, result, handled>>

submit_return(c) ==
    /\ pc[c] = "resp"
    /\ op[c].name = "submit"
    /\ result' = [result EXCEPT ![c] = submit(resp[c])]
    /\ pc' = [pc EXCEPT ![c] = "done"]
    /\ UNCHANGED <<adapterVars, otherVars, serverVars, now, op, sent, resp, handled>>

list_call(c, status, limit) ==
    /\ pc[c] = "idle"
    /\ op' = [op EXCEPT ![c] =
                [NoOp EXCEPT !.name = "list",
                             !.args = [status |-> status, limit |-> limit]]]
    /\ sent' = [sent EXCEPT ![c] =
                  <<CollectionRequest("GET", list_params(status, limit))>>]
    /\ pc' = [pc EXCEPT ![c] = "req"]
    /\ UNCHANGED <<adapterVars, otherVars, serverVars, now, resp, result, handled>>

list_return(c) ==
    /\ pc[c] = "resp"
    /\ op[c].name = "list"
    /\ result' = [result EXCEPT ![c] = list_items(resp[c])]
    /\ pc' = [pc EXCEPT ![c] = "done"]
    /\ UNCHANGED <<adapterVars, otherVars, serverVars, now, op, sent, resp, handled>>

collections_list_call(c) ==
    /\ pc[c] = "idle"
    /\ op' = [op EXCEPT ![c] = [NoOp EXCEPT !.name = "collections.list"]]
    /\ sent' = [sent EXCEPT ![c] =
                  <<ResourceRequest(<<"evaluations", "collections">>, <<>>)>>]
    /\ pc' = [pc EXCEPT ![c] = "req"]
    /\ UNCHANGED <<adapterVars, otherVars, serverVars, now, resp, result, handled>>

collections_get_call(c, collection_id) ==
    /\ pc[c] = "idle"
    /\ op' = [op EXCEPT ![c] = [NoOp EXCEPT !.name = "collections.get",
                                            !.args = collection_id]]
    /\ sent' = [sent EXCEPT ![c] =
                  <<ResourceRequest(<<"evaluations", "collections", collection_id>>,
                                    <<>>)>>]
    /\ pc' = [pc EXCEPT ![c] = "req"]
    /\ UNCHANGED <<adapterVars, otherVars, serverVars, now, resp, result, handled>>

collections_return(c) ==
    /\ pc[c] = "resp"
    /\ op[c].name \in {"collections.list", "collections.get"}
    /\ result' = [result EXCEPT ![c] =
                    IF op[c].name = "collections.list"
                    THEN collections_list(resp[c]) ELSE collections_get(resp[c])]
    /\ pc' = [pc EXCEPT ![c] = "done"]
    /\ UNCHANGED <<adapterVars, otherVars, serverVars, now, op, sent, resp, handled>>

providers_list_call(c) ==
    /\ pc[c] = "idle"
    /\ op' = [op EXCEPT ![c] = [NoOp EXCEPT !.name = "providers.list"]]
    /\ sent' = [sent EXCEPT ![c] =
                  <<ResourceRequest(<<"evaluations", "providers">>, <<>>)>>]
    /\ pc' = [pc EXCEPT ![c] = "req"]
    /\ UNCHANGED <<adapterVars, otherVars, serverVars, now, resp, result, handled>>

providers_list_return(c) ==
    /\ pc[c] = "resp"
    /\ op[c].name = "providers.list"
    /\ result' = [result EXCEPT ![c] = providers_list(resp[c])]
    /\ pc' = [pc EXCEPT ![c] = "done"]
    /\ UNCHANGED <<adapterVars, otherVars, serverVars, now, op, sent, resp, handled>>

list_benchmarks_call(c, provider_id, category, limit) ==
    /\ pc[c] = "idle"
    /\ op' = [op EXCEPT ![c] =
                [NoOp EXCEPT !.name = "list_benchmarks",
                             !.args = [provider_id |-> provider_id,
                                       category |-> category, limit |-> limit]]]
    /\ sent' = [sent EXCEPT ![c] =
                  <<ResourceRequest(<<"evaluations", "benchmarks">>,
                       list_benchmarks_params(provider_id, category, limit))>>]
    /\ pc' = [pc EXCEPT ![c] = "req"]
    /\ UNCHANGED <<adapterVars, otherVars, serverVars, now, resp, result, handled>>

list_benchmarks_return(c) ==
    /\ pc[c] = "resp"
    /\ op[c].name = "list_benchmarks"
    /\ result' = [result EXCEPT ![c] = list_benchmarks(resp[c])]
    /\ pc' = [pc EXCEPT ![c] = "done"]
    /\ UNCHANGED <<adapterVars, otherVars, serverVars, now, op, sent, resp, handled>>

wait_for_completion_call(c, j, timeout, poll_interval) ==
    /\ pc[c] = "idle"
    /\ op' = [op EXCEPT ![c] = [name |-> "wait", job_id |-> j,
                                 timeout |-> timeout,
                                 poll_interval |-> poll_interval,
                                 start_time |-> now, wake |-> 0,
                                 args |-> <<>>]]
    /\ sent' = [sent EXCEPT ![c] = <<Request("GET", j)>>]
    /\ pc' = [pc EXCEPT ![c] = "req"]
    /\ UNCHANGED <<adapterVars, otherVars, serverVars, now, resp, result, handled>>

wait_for_completion_check(c) ==
    /\ pc[c] = "resp"
    /\ op[c].name = "wait"
    /\ LET out == wait_for_completion(op[c], resp[c], now) IN
          IF out.kind = "sleep"
          THEN /\ pc' = [pc EXCEPT ![c] = "sleep"]
               /\ op' = [op EXCEPT ![c].wake = now + op[c].poll_interval]
               /\ UNCHANGED result
          ELSE /\ pc' = [pc EXCEPT ![c] = "done"]
               /\ result' = [result EXCEPT ![c] = out]
               /\ UNCHANGED op
    /\ UNCHANGED <<adapterVars, otherVars, serverVars, now, sent, resp, handled>>

\* variant: the loop gives up on the job by cancelling it
wait_for_completion_poll_cancels(c) ==
    /\ pc[c] = "sleep"
    /\ now >= op[c].wake
    /\ sent' = [sent EXCEPT ![c] = Append(@, Request("DELETE", op[c].job_id))]
    /\ pc' = [pc EXCEPT ![c] = "req"]
    /\ UNCHANGED <<adapterVars, otherVars, serverVars, now, op, resp, result, handled>>

\* time.sleep(poll_interval) is over: next iteration, next get
wait_for_completion_poll(c) ==
    /\ pc[c] = "sleep"
    /\ now >= op[c].wake
    /\ sent' = [sent EXCEPT ![c] = Append(@, Request("GET", op[c].job_id))]
    /\ pc' = [pc EXCEPT ![c] = "req"]
    /\ UNCHANGED <<adapterVars, otherVars, serverVars, now, op, resp, result, handled>>

\* the caller has the outcome; the client object is free for the next call
Finish(c) ==
    /\ pc[c] = "done"
    /\ pc' = [pc EXCEPT ![c] = "idle"]
    /\ op' = [op EXCEPT ![c] = NoOp]
    /\ sent' = [sent EXCEPT ![c] = <<>>]
    /\ resp' = [resp EXCEPT ![c] = NoResponse]
    /\ result' = [result EXCEPT ![c] = NoResult]
    /\ handled' = [handled EXCEPT ![c] = NotHandled]
    /\ UNCHANGED <<adapterVars, otherVars, serverVars, now>>

\* what the server does on its own
ServerNext ==
    \/ \E j \in StoredJobIds : StoreCreate(j)
    \/ \E j \in StoredJobIds : Dispatch(j)
    \/ \E j \in StoredJobIds, b \in Benchmarks, o \in {"success", "error"} :
          BenchmarkDone(j, b, o)
    \/ \E j \in StoredJobIds : Complete(j)
    \/ \E j \in StoredJobIds : Fail(j)
    \/ \E j \in StoredJobIds, pushed \in BOOLEAN : PersistArtifact(j, pushed)

\* one caller using the client against the running server
Next ==
    \/ ServerNext
    \/ \E c \in Waiters : ServerHandle(c)
    \/ \E c \in Waiters : Fault(c)
    \/ Tick
    \/ \E c \in Waiters, j \in JobIds : cancel_call(c, j)
    \/ \E c \in Waiters : cancel_return(c)
    \/ \E c \in Waiters, j \in JobIds, t \in Timeouts, p \in PollIntervals :
          wait_for_completion_call(c, j, t, p)
    \/ \E c \in Waiters : wait_for_completion_check(c)
    \/ \E c \in Waiters : wait_for_completion_poll(c)
    \/ \E c \in Waiters : Finish(c)

Spec == Init /\ [][Next]_vars

\* several callers cancelling concurrently
NextCancel ==
    \/ ServerNext
    \/ \E c \in Clients : ServerHandle(c)
    \/ \E c \in Clients : Fault(c)
    \/ \E c \in Clients, j \in JobIds : cancel_call(c, j)
    \/ \E c \in Clients : cancel_return(c)
    \/ \E c \in Clients : Finish(c)

SpecCancel == Init /\ [][NextCancel]_vars

\* the benchmark lists of the submissions tried: known and unknown
\* benchmark ids and provider ids, one or two to a job
SubmittedConfigs ==
    {BenchmarkConfig("b1", "p1"), BenchmarkConfig("bx", "p1"),
     BenchmarkConfig("b1", "px")}
Submissions ==
    {JobSubmissionRequest(<<a>>) : a \in SubmittedConfigs}
    \cup {JobSubmissionRequest(<<a, b>>) : a \in SubmittedConfigs, b \in SubmittedConfigs}
StatusArgs == {None} \cup {Some(JobStatus(s)) : s \in States}
LimitArgs == {None} \cup {Some(n) : n \in 0..2}

\* one caller submitting, listing and cancelling jobs while the
\* dispatcher starts them
NextJobs ==
    \/ \E j \in StoreIds : Dispatch(j)
    \/ \E c \in Waiters : ServerHandle(c)
    \/ \E c \in Waiters : Fault(c)
    \/ \E c \in Waiters, request \in Submissions : submit_call(c, request)
    \/ \E c \in Waiters : submit_return(c)
    \/ \E c \in Waiters, status \in StatusArgs, limit \in LimitArgs :
          list_call(c, status, limit)
    \/ \E c \in Waiters : list_return(c)
    \/ \E c \in Waiters, j \in JobIds : cancel_call(c, j)
    \/ \E c \in Waiters : cancel_return(c)
    \/ \E c \in Waiters : Finish(c)

SpecJobs == Init /\ [][NextJobs]_vars

\* ---------------------------------------------------------- OCI adapter
\* a file of the artifact: the directory it is in and its size in bytes
File(parent, size) == [parent |-> parent, size |-> size]
OCIArtifactSpec(id, benchmark_id, model_name, files, base_path) ==
    [id |-> id, benchmark_id |-> benchmark_id, model_name |-> model_name,
     files |-> files, base_path |-> base_path]
DefaultRegistry == "localhost:5000"
BytesPerFile == 1024

\* registry_url or "localhost:5000": None and "" are false
RegistryOrDefault(arg) ==
    IF arg = None \/ TheValue(arg) = "" THEN DefaultRegistry ELSE TheValue(arg)

\* spec.base_path or spec.files[0].parent: a path is always true; the
\* result is None when files[0] raises IndexError
files_path(spec) ==
    IF spec.base_path # None THEN spec.base_path
    ELSE IF spec.files # <<>> THEN Some(spec.files[1].parent)
    ELSE None
EvaluationJobFilesLocation(id, path) == [id |-> id, path |-> path]

\* variant: benchmark id and job id change places in the reference
oci_ref_swapped(registry, spec) ==
    <<registry, "/eval-results/", spec.id, ":", spec.benchmark_id>>

\* f"{self.registry_url}/eval-results/{spec.benchmark_id}:{spec.id}",
\* as the parts the f-string joins
oci_ref(registry, spec) ==
    <<registry, "/eval-results/", spec.benchmark_id, ":", spec.id>>
OCICoordinate(ref) == [oci_ref |-> ref, oci_subject |-> None]

EvaluationJobResource(id, created_at, updated_at) ==
    [id |-> id, tenant |-> "default",
     created_at |-> created_at, updated_at |-> updated_at]
ModelConfig(url, name) == [url |-> url, name |-> name]
\* the EvaluationJob built for the push; datetime.now(UTC) is read at t
persist_job(spec, t) ==
    [resource |-> EvaluationJobResource(spec.id, t, t),
     status |-> EvaluationJobStatus(RUNNING),
     model |-> ModelConfig("http://localhost", spec.model_name),
     benchmarks |-> <<BenchmarkConfig(spec.benchmark_id, "unknown")>>]

\* the files the original persister packages: those under the path of
\* the files location
Packaged(spec, location) ==
    IF spec.base_path # None THEN spec.files
    ELSE SelectSeq(spec.files, LAMBDA f : Some(f.parent) = location.path)
RECURSIVE TotalBytes(_)
TotalBytes(files) ==
    IF files = <<>> THEN 0
    ELSE files[1].size + TotalBytes(SubSeq(files, 2, Len(files)))
\* a content digest: equal for equal content, and only then
Digest(files) == [alg |-> "sha256", content |-> files]
\* the original persister's answer to a push that went through; the
\* reference it reports is the one pushed to, pinned to the digest
PersistResponse(spec, location, coord) ==
    [job_id |-> location.id,
     oci_ref |-> [name |-> coord.oci_ref,
                 at |-> Digest(Packaged(spec, location))],
     digest |-> Digest(Packaged(spec, location)),
     files_count |-> Len(Packaged(spec, location))]
PersistenceError == [type |-> "PersistenceError"]

OCIArtifactResult(response) ==
    [digest |-> response.digest,
     reference |-> response.oci_ref,
     size_bytes |-> response.files_count * BytesPerFile]

\* OCIArtifactPersister(registry_url=arg, ...)
OCIArtifactPersister(arg) ==
    /\ registry_url = None
    /\ registry_url' = Some(RegistryOrDefault(arg))
    /\ UNCHANGED <<persisted, otherVars, serverVars, now, clientVars, handled>>

\* One call of persist(spec).  located: whether the files location was
\* accepted by its model (the adapter passes id=, the model's tests pass
\* job_id=); pushed: whether the original persister's push went through.
\* The record kept of the call holds what was handed to the push, if it
\* got that far.
persist(spec, located, pushed) ==
    /\ registry_url # None
    /\ Len(persisted) < MaxPersists
    /\ LET path == files_path(spec)
           location == EvaluationJobFilesLocation(spec.id, path)
           coord == OCICoordinate(oci_ref(TheValue(registry_url), spec))
           job == persist_job(spec, now)
           response == PersistResponse(spec, location, coord)
           call == [spec |-> spec, at |-> now]
       IN  persisted' = Append(persisted,
             IF path = None
             THEN [call |-> call, push |-> None, response |-> None,
                   outcome |-> Raise([type |-> "IndexError"])]
             ELSE IF ~located
             THEN [call |-> call, push |-> None, response |-> None,
                   outcome |-> Raise(ValidationError)]
             ELSE IF ~pushed
             THEN [call |-> call,
                   push |-> Some([files_location |-> location,
                                  coordinate |-> coord, job |-> job]),
                   response |-> None,
                   outcome |-> Raise(PersistenceError)]
             ELSE [call |-> call,
                   push |-> Some([files_location |-> location,
                                  coordinate |-> coord, job |-> job]),
                   response |-> Some(response),
                   outcome |-> Return(OCIArtifactResult(response))])
    /\ UNCHANGED <<registry_url, otherVars, serverVars, now, clientVars, handled>>

\* the arguments tried
RegistryArgs == {None, Some(""), Some("registry.example:5000")}
FileLists == {<<>>, <<File("d1", 10)>>, <<File("d1", 10), File("d2", 1024)>>}
ArtifactSpecs ==
    {OCIArtifactSpec("j1", "b1", "m1", files, base_path) :
        files \in FileLists, base_path \in {None, Some("d0")}}

\* an adapter is constructed and used for persist calls over time
NextPersist ==
    \/ \E arg \in RegistryArgs : OCIArtifactPersister(arg)
    \/ \E spec \in ArtifactSpecs, located \in BOOLEAN, pushed \in BOOLEAN :
          persist(spec, located, pushed)
    \/ Tick

SpecPersist == Init /\ [][NextPersist]_vars

\* the catalogs tried at load: one or two provider definitions, some
\* sharing an id
Definitions ==
    {Provider("p1", <<Benchmark("b1", "math"), Benchmark("b2", "code")>>),
     Provider("p2", <<Benchmark("b1", "math")>>),
     Provider("p1", <<Benchmark("b3", "math")>>)}
Catalogs == {<<a>> : a \in Definitions}
            \cup {<<a, b>> : a \in Definitions, b \in Definitions}
CollectionIds == {"col1"}
ProviderIdArgs == {None, Some(""), Some("p1")}
CategoryArgs == {None, Some("math")}

\* the server loads its catalog and one caller reads providers,
\* benchmarks and collections
NextResources ==
    \/ \E entries \in Catalogs : load(entries)
    \/ \E c \in Waiters : ServerHandle(c)
    \/ \E c \in Waiters : Fault(c)
    \/ \E c \in Waiters : collections_list_call(c)
    \/ \E c \in Waiters, id \in CollectionIds : collections_get_call(c, id)
    \/ \E c \in Waiters : collections_return(c)
    \/ \E c \in Waiters : providers_list_call(c)
    \/ \E c \in Waiters : providers_list_return(c)
    \/ \E c \in Waiters, p \in ProviderIdArgs, cat \in CategoryArgs,
          limit \in LimitArgs : list_benchmarks_call(c, p, cat, limit)
    \/ \E c \in Waiters : list_benchmarks_return(c)
    \/ \E c \in Waiters : Finish(c)

SpecResources == Init /\ [][NextResources]_vars

\* ================================================================ claims
Waiting(c) == op[c].name = "wait"
Cancelling(c) == op[c].name = "cancel"
\* the last get of c was answered with the job in a terminal state
GotTerminal(c) ==
    /\ resp[c].status_code = 200
    /\ resp[c].body.kind = "job"
    /\ resp[c].body.state \in TerminalStates

\* C1: wait_for_completion returns the job as soon as a get returns it in
\* a terminal state, and never returns a PENDING or RUNNING job: once the
\* loop has looked at a terminal answer the call is over and its result
\* is that job.
C1_ReturnsTerminalJob ==
    \A c \in Clients :
        Waiting(c) =>
            /\ (pc[c] \in {"sleep", "done"} /\ GotTerminal(c)) =>
                  /\ pc[c] = "done"
                  /\ result[c].kind = "return"
                  /\ result[c].value =
                        EvaluationJob(resp[c].body.job, resp[c].body.state)
            /\ (pc[c] = "done" /\ result[c].kind = "return") =>
                  result[c].value.status.value \in TerminalStates

\* C2: for every timeout the caller supplies, the loop does not go on
\* sleeping once more than timeout seconds have passed at its timeout
\* check (it raises TimeoutError instead).
C2_TimeoutRaised ==
    \A c \in Clients :
        (Waiting(c) /\ pc[c] = "sleep" /\ op[c].timeout # None) =>
            (op[c].wake - op[c].poll_interval) - op[c].start_time
                <= TheValue(op[c].timeout)

\* C3: wait_for_completion issues only get requests for its job, and no
\* step of the call (its request being answered, its check, its next
\* poll, its return or TimeoutError) changes a job on the server.
C3_WaitLeavesJobsUnchanged ==
    [][\A c \in Clients :
         Waiting(c)' =>
            /\ \A i \in 1..Len(sent'[c]) :
                  sent'[c][i] = Request("GET", op'[c].job_id)
            /\ (Waiting(c) /\ pc'[c] # pc[c]) =>
                  (jobs' = jobs /\ bench' = bench)]_vars

C3_Witness ==
    \E c \in Clients :
        /\ Waiting(c) /\ pc[c] = "done"
        /\ result[c].kind = "raise"
        /\ result[c].exc.type = "TimeoutError"
        /\ Len(sent[c]) >= 2
        /\ jobs[op[c].job_id] = RUNNING

\* C4: a get that fails with an HTTP error ends wait_for_completion with
\* that very error, and the call issues no further get.
C4_GetErrorEndsWait ==
    [][\A c \in Clients :
         Waiting(c) =>
            /\ (pc[c] = "resp" /\ _request(resp[c]).kind = "raise"
                   /\ pc'[c] # pc[c]) =>
                  /\ pc'[c] = "done"
                  /\ result'[c] = _request(resp[c])
                  /\ sent'[c] = sent[c]
            /\ (pc[c] = "done" /\ pc'[c] # "idle") => sent'[c] = sent[c]]_vars

C4_Witness ==
    \E c \in Clients :
        /\ Waiting(c) /\ pc[c] = "done"
        /\ result[c].kind = "raise"
        /\ result[c].exc.type = "HTTPStatusError"
        /\ result[c].exc.response.status_code = 500
        /\ Len(sent[c]) >= 2

CancelDone(c) == Cancelling(c) /\ pc[c] = "done"
Raised(c, type) == result[c].kind = "raise" /\ result[c].exc.type = type

\* C5: a DELETE answered with 400 or 409 makes cancel raise
\* JobCanNotBeCancelledError carrying the job id, the HTTP error as cause
\* and the body's "message" as reason; a message written by the server
\* names the state the job is in.
C5_CanNotBeCancelled ==
    \A c \in Clients :
        (CancelDone(c) /\ resp[c].status_code \in {400, 409}) =>
            /\ Raised(c, "JobCanNotBeCancelledError")
            /\ result[c].exc.job_id = op[c].job_id
            /\ result[c].exc.cause = HTTPStatusError(resp[c])
            /\ resp[c].body.kind = "object" =>
                  result[c].exc.reason = resp[c].body.message
            /\ handled[c].state # "none" =>
                  /\ result[c].exc.reason # None
                  /\ TheValue(result[c].exc.reason).job = op[c].job_id
                  /\ TheValue(result[c].exc.reason).state = jobs[op[c].job_id]

C5_Witness ==
    \E c \in Clients :
        /\ CancelDone(c) /\ resp[c].status_code = 409
        /\ Raised(c, "JobCanNotBeCancelledError")
        /\ result[c].exc.reason = CanNotCancelMessage("j1", COMPLETED)

\* C6: a DELETE answered with 404 makes cancel raise JobNotFoundError with
\* the job id and the HTTP error as cause, never JobCanNotBeCancelledError.
C6_NotFound ==
    \A c \in Clients :
        (CancelDone(c) /\ resp[c].status_code = 404) =>
            /\ Raised(c, "JobNotFoundError")
            /\ result[c].exc.job_id = op[c].job_id
            /\ result[c].exc.cause = HTTPStatusError(resp[c])

C6_Witness ==
    \E c \in Clients :
        /\ CancelDone(c) /\ resp[c].status_code = 404
        /\ Raised(c, "JobNotFoundError")
        /\ op[c].job_id = "jx"

\* C7: a 400/409 whose body is not JSON still makes cancel raise
\* JobCanNotBeCancelledError for the job id, with reason None; the parse
\* failure does not reach the caller.
C7_UnparsableBody ==
    \A c \in Clients :
        (CancelDone(c) /\ resp[c].status_code \in {400, 409}
            /\ resp[c].body.kind = "notjson") =>
            /\ Raised(c, "JobCanNotBeCancelledError")
            /\ result[c].exc.job_id = op[c].job_id
            /\ result[c].exc.reason = None

C7_Witness ==
    \E c \in Clients :
        /\ CancelDone(c) /\ resp[c] = Response(400, NotJson)
        /\ Raised(c, "JobCanNotBeCancelledError")

\* C8: cancel returns True exactly when the DELETE succeeded, never
\* returns False, and re-raises a status error other than 404, 400 and
\* 409 as the HTTPStatusError it got.
C8_TrueOrReraise ==
    \A c \in Clients :
        CancelDone(c) =>
            /\ result[c].kind = "return" <=> resp[c].status_code \in 200..399
            /\ result[c].kind = "return" => result[c].value = TRUE
            /\ (resp[c].status_code >= 400
                  /\ resp[c].status_code \notin {400, 404, 409}) =>
                  result[c] = Raise(HTTPStatusError(resp[c]))

C8_Witness ==
    \E c \in Clients :
        /\ CancelDone(c) /\ resp[c].status_code = 500
        /\ result[c] = Raise(HTTPStatusError(resp[c]))

Edges ==
    { <<PENDING, RUNNING>>, <<RUNNING, COMPLETED>>, <<RUNNING, FAILED>>,
      <<PENDING, CANCELLED>>, <<RUNNING, CANCELLED>> }
\* the store refuses the call and the job stays as it is
Refused(j) ==
    /\ storeError' = "InvalidTransitionError"
    /\ jobs'[j] = jobs[j]
    /\ bench'[j] = bench[j]

\* C9: a job changes state only along the edges of the state machine; a
\* job in a terminal state changes neither its state nor its benchmark
\* results; every transition attempted outside the edges is refused with
\* InvalidTransitionError and leaves the job unchanged.
C9_OnlyEdges ==
    [][\A j \in StoredJobIds :
         /\ (jobs[j] # ABSENT /\ jobs'[j] # jobs[j]) =>
               <<jobs[j], jobs'[j]>> \in Edges
         /\ jobs[j] \in TerminalStates =>
               (jobs'[j] = jobs[j] /\ bench'[j] = bench[j])
         /\ (Dispatch(j) /\ <<jobs[j], RUNNING>> \notin Edges) => Refused(j)
         /\ (Complete(j) /\ <<jobs[j], COMPLETED>> \notin Edges) => Refused(j)
         /\ (Fail(j) /\ <<jobs[j], FAILED>> \notin Edges) => Refused(j)
         /\ \A b \in Benchmarks, o \in {"success", "error"} :
               (BenchmarkDone(j, b, o) /\ jobs[j] # RUNNING) => Refused(j)
         /\ \A c \in Clients :
               (ServerHandle(c) /\ Last(sent[c]) = Request("DELETE", j)
                   /\ Exists(j) /\ <<jobs[j], CANCELLED>> \notin Edges) =>
                  Refused(j)]_vars

C9_Witness ==
    /\ storeError = "InvalidTransitionError"
    /\ jobs["j1"] = CANCELLED
    /\ \E b \in Benchmarks : bench["j1"][b] = "inflight"

\* C10: of two cancel requests for one job that are in flight together
\* while the job is RUNNING, the one the server takes first performs the
\* transition to CANCELLED and returns True, and the other is refused and
\* raises JobCanNotBeCancelledError; never both succeed, never both fail.
C10_ExactlyOneCancels ==
    \A a \in Clients, b \in Clients :
        ( /\ a # b
          /\ Cancelling(a) /\ Cancelling(b)
          /\ op[a].job_id = op[b].job_id
          /\ handled[a].overlap /\ handled[a].state = RUNNING
          /\ pc[b] \in {"resp", "done"} /\ handled[b].state # "none" ) =>
            /\ resp[a].status_code = 200
            /\ resp[b].status_code \in {400, 409}
            /\ handled[b].state = CANCELLED
            /\ jobs[op[a].job_id] = CANCELLED
            /\ pc[a] = "done" => result[a] = Return(TRUE)
            /\ pc[b] = "done" => Raised(b, "JobCanNotBeCancelledError")

C10_Witness ==
    \E a \in Clients, b \in Clients :
        /\ a # b
        /\ CancelDone(a) /\ CancelDone(b)
        /\ op[a].job_id = op[b].job_id
        /\ handled[a].overlap /\ handled[a].state = RUNNING
        /\ result[a] = Return(TRUE)
        /\ handled[b].state = CANCELLED
        /\ Raised(b, "JobCanNotBeCancelledError")

\* C11: a cancel the server takes while the job is PENDING moves the job
\* straight to CANCELLED (no benchmark was ever started) and returns True;
\* a cancel the server takes while the job is in a terminal state, a
\* second cancel of a cancelled job included, raises
\* JobCanNotBeCancelledError whose reason names that terminal state.
C11_CancelPendingThenRefused ==
    \A c \in Clients :
        /\ ( /\ Cancelling(c) /\ pc[c] \in {"resp", "done"}
             /\ handled[c].state = PENDING ) =>
              /\ jobs[op[c].job_id] = CANCELLED
              /\ \A b \in Benchmarks : bench[op[c].job_id][b] = "todo"
              /\ resp[c].status_code = 200
              /\ pc[c] = "done" => result[c] = Return(TRUE)
        /\ (CancelDone(c) /\ handled[c].state \in TerminalStates) =>
              /\ Raised(c, "JobCanNotBeCancelledError")
              /\ result[c].exc.reason # None
              /\ TheValue(result[c].exc.reason).state = handled[c].state
              /\ jobs[op[c].job_id] = handled[c].state

\* a cancel of a job that was cancelled while PENDING has been refused
C11_Witness ==
    \E c \in Clients :
        /\ CancelDone(c) /\ handled[c].state = CANCELLED
        /\ Raised(c, "JobCanNotBeCancelledError")
        /\ result[c].exc.reason = CanNotCancelMessage("j1", CANCELLED)
        /\ \A b \in Benchmarks : bench["j1"][b] = "todo"

\* C15: a job whose benchmark invocations run concurrently is COMPLETED
\* or FAILED only when every one of its invocations has reached a
\* terminal outcome (success or error), and the step that takes it there
\* starts from a state where they all have.
C15_BarrierBeforeTerminal ==
    [][\A j \in StoreIds :
         /\ jobs[j] \in {COMPLETED, FAILED} => AllTerminal(j)
         /\ (jobs[j] = RUNNING /\ jobs'[j] \in {COMPLETED, FAILED}) =>
               /\ AllTerminal(j)
               /\ bench'[j] = bench[j]]_vars

\* a job failed after a benchmark that succeeded and one that failed
C15_Witness ==
    /\ jobs["j1"] = FAILED
    /\ \E a \in Benchmarks, b \in Benchmarks :
          bench["j1"][a] = "success" /\ bench["j1"][b] = "error"

\* C16: a job never carries two artifact records, and it carries one only
\* when it is COMPLETED with every benchmark at a terminal outcome.
C16_OneArtifactAfterBarrier ==
    \A j \in StoreIds :
        /\ Len(artifacts[j]) <= 1
        /\ artifacts[j] # <<>> =>
              /\ jobs[j] = COMPLETED
              /\ AllTerminal(j)
              /\ \A b \in Benchmarks : bench[j][b] # "inflight"

\* a completed job with its record attached
C16_Witness ==
    /\ artifacts["j1"] = <<ArtifactRecord("j1")>>
    /\ jobs["j1"] = COMPLETED

Submitting(c) == op[c].name = "submit"
Listing(c) == op[c].name = "list"
Unresolved(request) ==
    \E i \in 1..Len(request.benchmarks) : ~Resolves(request.benchmarks[i])
\* the place of job j in the order of creation
CreatedAt(j) == CHOOSE i \in 1..Len(order) : order[i] = j

\* C12: a submission in which some benchmark names a provider id or a
\* benchmark id that is not in the catalog is rejected as a whole: the
\* server's step creates no job, an unfiltered list returns the same jobs
\* after it as before it, the answer is a 400-class error, and submit
\* raises it.
C12_UnresolvedCreatesNothing ==
    [][\A c \in Clients :
         /\ (ServerHandle(c) /\ Submitting(c) /\ Unresolved(op[c].args)) =>
               /\ jobs' = jobs
               /\ order' = order
               /\ ListItems(NoParams)' = ListItems(NoParams)
               /\ Len(ListItems(NoParams)') = Len(order)
               /\ resp'[c].status_code \in 400..499
         /\ (submit_return(c) /\ Unresolved(op[c].args)) =>
               /\ result'[c].kind = "raise"
               /\ jobs' = jobs]_vars

\* a submission whose first benchmark is in the catalog and whose second
\* is not was refused while the store held a job
C12_Witness ==
    \E c \in Clients :
        /\ Submitting(c) /\ pc[c] = "done"
        /\ handled[c].state # "none"
        /\ Len(op[c].args.benchmarks) = 2
        /\ Resolves(op[c].args.benchmarks[1])
        /\ ~Resolves(op[c].args.benchmarks[2])
        /\ result[c] = Raise(HTTPStatusError(resp[c]))
        /\ resp[c].status_code = 400
        /\ Len(order) = 1

\* C13: the client passes the status it is given as the status_filter
\* query parameter; the server's answer holds only jobs that are in
\* exactly that state, newest first; and list returns the items of the
\* answer as they came, none reordered, dropped or added.
C13_FilteredNewestFirst ==
    [][\A c \in Clients :
         /\ (\E status \in StatusArgs, limit \in LimitArgs :
                list_call(c, status, limit)) =>
               Last(sent'[c]).payload.status_filter =
                  IF op'[c].args.status = None THEN None
                  ELSE Some(TheValue(op'[c].args.status).value)
         /\ (ServerHandle(c) /\ Listing(c)) =>
               LET items == resp'[c].body.items IN
               /\ resp'[c].status_code = 200
               /\ \A i \in 1..Len(items) :
                     /\ jobs[items[i].job] = items[i].state
                     /\ op[c].args.status # None =>
                           items[i].state = TheValue(op[c].args.status).value
               /\ \A i, k \in 1..Len(items) :
                     i < k => CreatedAt(items[i].job) > CreatedAt(items[k].job)
               /\ op[c].args.limit = None =>
                     \A j \in StoreIds :
                        (jobs[j] # ABSENT
                           /\ (op[c].args.status = None
                                 \/ jobs[j] = TheValue(op[c].args.status).value)) =>
                           \E i \in 1..Len(items) : items[i].job = j
         /\ (list_return(c) /\ resp[c].body.kind = "jobs") =>
               LET items == resp[c].body.items IN
               /\ result'[c].kind = "return"
               /\ Len(result'[c].value) = Len(items)
               /\ \A i \in 1..Len(items) :
                     /\ result'[c].value[i].id = items[i].job
                     /\ result'[c].value[i].status.value = items[i].state]_vars

\* list(status=RUNNING) returned the one running job of two
C13_Witness ==
    \E c \in Clients :
        /\ Listing(c) /\ pc[c] = "done"
        /\ op[c].args.status = Some(JobStatus(RUNNING))
        /\ result[c].kind = "return"
        /\ Len(result[c].value) = 1
        /\ result[c].value[1].status.value = RUNNING
        /\ Len(order) = 2
        /\ \E j \in StoreIds : jobs[j] \notin {ABSENT, RUNNING}

\* C14: for every limit n the caller supplies, 0 included, list returns
\* at most n jobs; with no limit and no status it returns all jobs.
C14_LimitTruncates ==
    \A c \in Clients :
        (Listing(c) /\ pc[c] = "done" /\ result[c].kind = "return") =>
            /\ op[c].args.limit # None =>
                  Len(result[c].value) <= TheValue(op[c].args.limit)
            /\ (op[c].args.limit = None /\ op[c].args.status = None) =>
                  Len(result[c].value) = Len(order)

\* the i-th persist call got as far as the push
Pushed(i) == persisted[i].push # None
PushOf(i) == TheValue(persisted[i].push)

\* C17: the job record persist hands to the underlying push is in state
\* COMPLETED, never in a non-terminal state.
C17_PushedJobCompleted ==
    \A i \in 1..Len(persisted) :
        Pushed(i) =>
            /\ PushOf(i).job.status.value = COMPLETED
            /\ PushOf(i).job.status.value \notin {PENDING, RUNNING}

\* C18: two persist calls for the same job (same id, benchmark id, model
\* name and files) yield the same digest, the second being a retry after
\* a failed first included, and hand the same inputs to the push: nothing
\* that differs between the calls, such as their time, enters them.
C18_SameInputsSameDigest ==
    \A i \in 1..Len(persisted), k \in 1..Len(persisted) :
        persisted[i].call.spec = persisted[k].call.spec =>
            /\ (persisted[i].response # None /\ persisted[k].response # None) =>
                  TheValue(persisted[i].response).digest =
                     TheValue(persisted[k].response).digest
            /\ (Pushed(i) /\ Pushed(k)) => PushOf(i) = PushOf(k)

\* C19: the adapter's registry is the configured registry_url, or
\* localhost:5000 when none is configured, and every push goes to the
\* reference <registry>/eval-results/<benchmark id>:<job id> of the spec
\* being persisted.
C19_PushReference ==
    [][/\ \A arg \in RegistryArgs :
             OCIArtifactPersister(arg) =>
                /\ arg = None => registry_url' = Some("localhost:5000")
                /\ (arg # None /\ TheValue(arg) # "") => registry_url' = arg
       /\ \A spec \in ArtifactSpecs, located \in BOOLEAN, pushed \in BOOLEAN :
             LET last == persisted'[Len(persisted')] IN
             (persist(spec, located, pushed) /\ last.push # None) =>
                TheValue(last.push).coordinate.oci_ref =
                   <<TheValue(registry_url), "/eval-results/",
                     spec.benchmark_id, ":", spec.id>>]_vars

\* a push of job j1, benchmark b1, went to the default registry
C19_Witness ==
    \E i \in 1..Len(persisted) :
        /\ Pushed(i)
        /\ persisted[i].response # None
        /\ PushOf(i).coordinate.oci_ref =
              <<"localhost:5000", "/eval-results/", "b1", ":", "j1">>

\* C20: the result of persist carries the digest and the reference of
\* the push's response unchanged, and as size the total number of bytes
\* of the packaged files.
C20_ResultOfPush ==
    \A i \in 1..Len(persisted) :
        persisted[i].outcome.kind = "return" =>
            LET response == TheValue(persisted[i].response)
                packaged == Packaged(persisted[i].call.spec,
                                     PushOf(i).files_location)
            IN  /\ persisted[i].outcome.value.digest = response.digest
                /\ persisted[i].outcome.value.reference = response.oci_ref
                /\ persisted[i].outcome.value.size_bytes = TotalBytes(packaged)

\* C21: a persist whose push fails surfaces PersistenceError, an error
\* told apart from the store's InvalidTransitionError, and changes
\* neither the state of the job, which stays COMPLETED, nor its benchmark
\* results nor its artifact record; while PersistenceError is the last
\* error surfaced the job it was raised for is still COMPLETED.
C21_FailedPushKeepsJob ==
    [][/\ \A j \in StoreIds :
             PersistArtifact(j, FALSE) =>
                /\ storeError' = "PersistenceError"
                /\ storeError' # "InvalidTransitionError"
                /\ jobs[j] = COMPLETED /\ jobs' = jobs
                /\ bench' = bench
                /\ artifacts' = artifacts
       /\ (storeError' = "PersistenceError" /\ storeError # "PersistenceError") =>
             \E j \in StoreIds : PersistArtifact(j, FALSE)
       /\ storeError' = "PersistenceError" =>
             \E j \in StoreIds : jobs'[j] = COMPLETED]_vars

\* the push for a completed job failed and the job has no record yet
C21_Witness ==
    /\ storeError = "PersistenceError"
    /\ jobs["j1"] = COMPLETED
    /\ artifacts["j1"] = <<>>

OnCollections(c) == op[c].name \in {"collections.list", "collections.get"}

\* C22: the server answers every collections request, list or get, with
\* 501, and the client call ends by raising the HTTP status error of that
\* answer; no collections call ever returns a list or a collection.
C22_CollectionsNotImplemented ==
    [][\A c \in Clients :
         /\ (ServerHandle(c) /\ OnCollections(c)) =>
               resp'[c].status_code = 501
         /\ collections_return(c) =>
               /\ result'[c].kind = "raise"
               /\ handled[c].state # "none" =>
                     /\ result'[c] = Raise(HTTPStatusError(resp[c]))
                     /\ result'[c].exc.response.status_code = 501]_vars

\* a collections.list answered by the server has raised the 501
C22_Witness ==
    \E c \in Clients :
        /\ op[c].name = "collections.list" /\ pc[c] = "done"
        /\ handled[c].state # "none"
        /\ Raised(c, "HTTPStatusError")
        /\ result[c].exc.response.status_code = 501

ListingBenchmarks(c) == op[c].name = "list_benchmarks"

\* C23: list_benchmarks sends every filter the caller supplied, and
\* nothing for one not supplied: provider_id and category as given, limit
\* as its decimal string; and it returns one BenchmarkInfo per item of
\* the response, in the order of the response, whose benchmark_id is the
\* item's id.
C23_BenchmarkFilters ==
    \A c \in Clients :
        (ListingBenchmarks(c) /\ pc[c] # "idle") =>
            LET params == Last(sent[c]).payload
                args == op[c].args
            IN  /\ params.provider_id = args.provider_id
                /\ params.category = args.category
                /\ params.limit = IF args.limit = None THEN None
                                  ELSE Some(Str(TheValue(args.limit)))
                /\ (pc[c] = "done" /\ resp[c].body.kind = "benchmarks") =>
                      /\ result[c].kind = "return"
                      /\ Len(result[c].value) = Len(resp[c].body.items)
                      /\ \A i \in 1..Len(resp[c].body.items) :
                            result[c].value[i].benchmark_id =
                               resp[c].body.items[i].id

UniqueIds(items) ==
    \A i, k \in 1..Len(items) : items[i].id = items[k].id => i = k

\* C24: the providers the registry serves have pairwise different ids,
\* and so have the providers any providers.list call returns; a load of
\* a catalog in which two entries share an id ends in ConfigError with no
\* provider in the registry, and a registry in ConfigError answers no
\* request.
C24_UniqueProviderIds ==
    [][/\ UniqueIds(providers.items)
       /\ \A c \in Clients :
             (op[c].name = "providers.list" /\ pc[c] = "done"
                /\ result[c].kind = "return") => UniqueIds(result[c].value)
       /\ \A entries \in Catalogs :
             (load(entries) /\ HasDuplicateIds(entries)) =>
                /\ providers'.status = "ConfigError"
                /\ providers'.items = <<>>
       /\ providers.status = "ConfigError" =>
             /\ providers' = providers
             /\ \A c \in Clients : ~ServerHandle(c)]_vars

\* a catalog with a repeated id was refused, and a providers.list call
\* made since got no answer
C24_Witness ==
    /\ providers.status = "ConfigError"
    /\ \E c \in Clients :
          /\ op[c].name = "providers.list" /\ pc[c] = "done"
          /\ Raised(c, "ConnectError")

\* ---------------------------------------------------------------------
\* Test selection: the hook of src/tests/conftest.py

\* a collected item: its keywords and the markers added to it since
Item(keywords) == [keywords |-> keywords, own_markers |-> <<>>]

add_marker(item, marker) ==
    [item EXCEPT !.own_markers = Append(@, marker)]

RECURSIVE SuitesOf(_)
\* the item lists of at most n items
SuitesOf(n) ==
    IF n = 0 THEN {<<>>}
    ELSE LET shorter == SuitesOf(n - 1)
         IN  shorter \cup
             {Append(s, Item(k)) : s \in shorter, k \in SUBSET Keywords}

modifyitems_flagless(e2e_flag, items) ==
    [i \in 1..Len(items) |->
        LET item == items[i]
            is_e2e == "e2e" \in item.keywords
        IN  IF ~is_e2e THEN add_marker(item, skip_non_e2e) ELSE item]

\* the loop of pytest_collection_modifyitems over the items
modifyitems(e2e_flag, items) ==
    [i \in 1..Len(items) |->
        LET item == items[i]
            is_e2e == "e2e" \in item.keywords
        IN  IF e2e_flag
            THEN IF ~is_e2e THEN add_marker(item, skip_non_e2e) ELSE item
            ELSE IF is_e2e THEN add_marker(item, skip_e2e) ELSE item]

\* pytest parses the command line and collects the items
pytest_collect(e2e_flag, items) ==
    /\ suite.stage = "start"
    /\ suite' = [stage |-> "collected", e2e_flag |-> e2e_flag, items |-> items]
    /\ UNCHANGED <<serverVars, adapterVars, providers, fixture, script, now,
                   clientVars, handled>>

pytest_collection_modifyitems ==
    /\ suite.stage = "collected"
    /\ suite' = [suite EXCEPT !.stage = "selected",
                              !.items = modifyitems(suite.e2e_flag, @)]
    /\ UNCHANGED <<serverVars, adapterVars, providers, fixture, script, now,
                   clientVars, handled>>

NextSelect ==
    \/ \E f \in BOOLEAN, items \in SuitesOf(MaxTests) : pytest_collect(f, items)
    \/ pytest_collection_modifyitems

SpecSelect == Init /\ [][NextSelect]_vars

\* the item carries a skip marker
Skipped(item) ==
    \E k \in 1..Len(item.own_markers) : item.own_markers[k].name = "skip"

\* C25: once the hook has run, with --e2e exactly the items without the
\* e2e keyword carry a skip marker, without it exactly the items with
\* the e2e keyword do; and of the two runs of the hook over the collected
\* items, with and without the flag, exactly one marks any given item.
C25_SelectionPartitions ==
    suite.stage = "selected" =>
        \A i \in 1..Len(suite.items) :
            LET item == suite.items[i]
                is_e2e == "e2e" \in item.keywords
                fresh == [k \in 1..Len(suite.items) |->
                             Item(suite.items[k].keywords)]
            IN  /\ suite.e2e_flag => (Skipped(item) <=> ~is_e2e)
                /\ ~suite.e2e_flag => (Skipped(item) <=> is_e2e)
                /\ Len(item.own_markers) <= 1
                /\ Skipped(modifyitems(TRUE, fresh)[i])
                      # Skipped(modifyitems(FALSE, fresh)[i])

\* a run without --e2e over a suite that has both kinds of test
C25_Witness ==
    /\ suite.stage = "selected"
    /\ ~suite.e2e_flag
    /\ \E i, k \in 1..Len(suite.items) :
          /\ Skipped(suite.items[i]) /\ "e2e" \in suite.items[i].keywords
          /\ ~Skipped(suite.items[k]) /\ "e2e" \notin suite.items[k].keywords

\* the wait call of c has ended in TimeoutError
TimedOut(c) ==
    /\ Waiting(c) /\ pc[c] = "done"
    /\ result[c].kind = "raise"
    /\ result[c].exc.type = "TimeoutError"

\* C26: in an iteration of wait_for_completion the terminal-state check
\* comes before the timeout check: a TimeoutError is raised only after a
\* get was issued, and never in an iteration whose get returned the job
\* in a terminal state (that iteration returns the job, however much
\* time has passed).
C26_TerminalCheckFirst ==
    \A c \in Clients :
        /\ TimedOut(c) =>
              /\ Len(sent[c]) >= 1
              /\ ~GotTerminal(c)
        /\ (Waiting(c) /\ pc[c] = "done" /\ GotTerminal(c)
              /\ op[c].timeout # None
              /\ now - op[c].start_time > TheValue(op[c].timeout)) =>
              result[c] = Return(EvaluationJob(resp[c].body.job,
                                               resp[c].body.state))

\* ---------------------------------------------------------------------
\* The waiting caller under fair scheduling: the thread in
\* wait_for_completion runs its loop (the check after an answer, the next
\* get after the sleep), the server answers a request that reached it,
\* and the clock advances.
FairWait ==
    \A c \in Waiters :
        /\ WF_vars(wait_for_completion_check(c))
        /\ WF_vars(wait_for_completion_poll(c))
        /\ WF_vars(ServerHandle(c))
        /\ WF_vars(Tick)

SpecFair == Init /\ [][Next]_vars /\ FairWait

\* C27: a wait_for_completion call without timeout whose get has been
\* answered with the job in a terminal state eventually returns (the job
\* stays terminal, so it returns whichever get it is looking at).
C27_EventuallyReturns ==
    \A c \in Waiters :
        (Waiting(c) /\ op[c].timeout = None /\ pc[c] = "resp"
            /\ GotTerminal(c))
          ~> (Waiting(c) /\ pc[c] = "done" /\ result[c].kind = "return")

\* ---------------------------------------------------------------------
\* AsyncEvaluationsClient: each method as the request it awaits and what
\* it makes of the answer

\* submit: await self._request("POST", "/evaluations/jobs", json=...)
async_submit_request(request) == CollectionRequest("POST", model_dump(request))
async_submit(r) ==
    LET got == _request(r) IN
    IF got.kind = "raise" THEN got
    ELSE IF r.body.kind = "job"
         THEN Return(EvaluationJob(r.body.job, r.body.state))
         ELSE Raise(ValidationError)

\* get_job: await self._request_get(f"/evaluations/jobs/{job_id}")
async_get_job_request(job_id) == Request("GET", job_id)
async_get_job(r) ==
    LET got == _request(r) IN
    IF got.kind = "raise" THEN got
    ELSE IF r.body.kind = "job"
         THEN Return(EvaluationJob(r.body.job, r.body.state))
         ELSE Raise(ValidationError)

\* cancel: await self._request_delete(f"/evaluations/jobs/{job_id}")
async_cancel_request(job_id) == Request("DELETE", job_id)
\* variant: only a 400 is a refusal
async_cancel_400(job_id, r) ==
    LET got == _request(r) IN
    IF got.kind = "return" THEN Return(TRUE)
    ELSE IF got.exc.type = "HTTPStatusError"
         THEN IF r.status_code = 404
              THEN Raise(JobNotFoundError(job_id, got.exc))
              ELSE IF r.status_code = 400
                   THEN Raise(JobCanNotBeCancelledError(job_id, ReasonOf(r), got.exc))
                   ELSE got
         ELSE got

async_cancel(job_id, r) ==
    LET got == _request(r) IN
    IF got.kind = "return" THEN Return(TRUE)
    ELSE IF got.exc.type = "HTTPStatusError"
         THEN IF r.status_code = 404
              THEN Raise(JobNotFoundError(job_id, got.exc))
              ELSE IF r.status_code \in {400, 409}
                   THEN Raise(JobCanNotBeCancelledError(job_id, ReasonOf(r), got.exc))
                   ELSE got
         ELSE got

\* list: await self._request_get("/evaluations/jobs", params=params)
async_list_request(status, limit) ==
    CollectionRequest("GET",
        [status_filter |-> IF status # None THEN Some(TheValue(status).value)
                           ELSE None,
         limit |-> IF limit # None /\ TheValue(limit) # 0
                   THEN Some(Str(TheValue(limit))) ELSE None])
async_list(r) ==
    LET got == _request(r) IN
    IF got.kind = "raise" THEN got
    ELSE IF r.body.kind = "jobs"
         THEN Return([i \in 1..Len(r.body.items) |->
                        EvaluationJob(r.body.items[i].job, r.body.items[i].state)])
         ELSE Raise(ValidationError)

\* one pass of the loop of wait_for_completion after the awaited get:
\* "return", "raise" or "sleep" (await asyncio.sleep(poll_interval))
async_wait_for_completion(o, r, t) ==
    LET got == async_get_job(r) IN
    IF got.kind = "raise" THEN got
    ELSE IF PyIn(got.value.status, TerminalList) THEN Return(got.value)
    ELSE IF (o.timeout # None /\ TheValue(o.timeout) # 0)
              /\ (t - o.start_time) > TheValue(o.timeout)
         THEN Raise(TimeoutError(o.job_id, o.timeout))
         ELSE [kind |-> "sleep"]

\* ---------------------------------------------------------------------
\* SyncEvaluationsClient.get_job called on its own
get_job_call(c, j) ==
    /\ pc[c] = "idle"
    /\ op' = [op EXCEPT ![c] = [NoOp EXCEPT !.name = "get", !.job_id = j]]
    /\ sent' = [sent EXCEPT ![c] = <<Request("GET", j)>>]
    /\ pc' = [pc EXCEPT ![c] = "req"]
    /\ UNCHANGED <<adapterVars, otherVars, serverVars, now, resp, result, handled>>

get_job_return(c) ==
    /\ pc[c] = "resp"
    /\ op[c].name = "get"
    /\ result' = [result EXCEPT ![c] = get_job(resp[c])]
    /\ pc' = [pc EXCEPT ![c] = "done"]
    /\ UNCHANGED <<adapterVars, otherVars, serverVars, now, op, sent, resp, handled>>

\* one caller making every call of the evaluations client while the
\* server runs its job
NextClient ==
    \/ \E j \in StoredJobIds : Dispatch(j)
    \/ \E c \in Waiters : ServerHandle(c)
    \/ \E c \in Waiters : Fault(c)
    \/ Tick
    \/ \E c \in Waiters, request \in Submissions : submit_call(c, request)
    \/ \E c \in Waiters : submit_return(c)
    \/ \E c \in Waiters, j \in JobIds : get_job_call(c, j)
    \/ \E c \in Waiters : get_job_return(c)
    \/ \E c \in Waiters, j \in JobIds : cancel_call(c, j)
    \/ \E c \in Waiters : cancel_return(c)
    \/ \E c \in Waiters, status \in StatusArgs, limit \in LimitArgs :
          list_call(c, status, limit)
    \/ \E c \in Waiters : list_return(c)
    \/ \E c \in Waiters, j \in JobIds, t \in Timeouts, p \in PollIntervals :
          wait_for_completion_call(c, j, t, p)
    \/ \E c \in Waiters : wait_for_completion_check(c)
    \/ \E c \in Waiters : wait_for_completion_poll(c)
    \/ \E c \in Waiters : Finish(c)

SpecClient == Init /\ [][NextClient]_vars

\* the request the asynchronous client issues for the call o
AsyncRequest(o) ==
    CASE o.name = "submit" -> async_submit_request(o.args)
      [] o.name = "get" -> async_get_job_request(o.job_id)
      [] o.name = "cancel" -> async_cancel_request(o.job_id)
      [] o.name = "list" -> async_list_request(o.args.status, o.args.limit)
      [] o.name = "wait" -> async_get_job_request(o.job_id)

\* what the asynchronous client makes of the answer r to that request,
\* at time t
AsyncOutcome(o, r, t) ==
    CASE o.name = "submit" -> async_submit(r)
      [] o.name = "get" -> async_get_job(r)
      [] o.name = "cancel" -> async_cancel(o.job_id, r)
      [] o.name = "list" -> async_list(r)
      [] o.name = "wait" -> async_wait_for_completion(o, r, t)

EvaluationCalls == {"submit", "get", "cancel", "list", "wait"}

\* C28: whenever the synchronous client issues a request, it is the
\* request the asynchronous client issues at that point of the same call,
\* and whenever it has looked at an answer, it ends or goes on as the
\* asynchronous client does on that answer: the same result, the same
\* error, or the same sleep before the next get.
C28_SyncAsyncEquivalent ==
    [][\A c \in Clients :
          /\ (op'[c].name \in EvaluationCalls /\ sent'[c] # sent[c]) =>
                Last(sent'[c]) = AsyncRequest(op'[c])
          /\ (op[c].name \in EvaluationCalls /\ pc[c] = "resp"
                /\ pc'[c] # "resp") =>
                LET out == AsyncOutcome(op[c], resp[c], now) IN
                IF out.kind = "sleep"
                THEN pc'[c] = "sleep" /\ result'[c] = result[c]
                ELSE pc'[c] = "done" /\ result'[c] = out]_vars

\* a cancel refused with 409, which both clients report as
\* JobCanNotBeCancelledError
C28_Witness ==
    \E c \in Clients :
        /\ Cancelling(c) /\ pc[c] = "done"
        /\ resp[c].status_code = 409
        /\ result[c] = async_cancel(op[c].job_id, resp[c])
        /\ Raised(c, "JobCanNotBeCancelledError")

\* ---------------------------------------------------------------------
\* The server fixtures of the e2e tests: start the server, probe /health,
\* yield the base URL, terminate the server afterwards

\* the server process is started and the probe loop entered
fixture_start(name) ==
    /\ fixture.stage = "unused"
    /\ fixture' = [NoFixture EXCEPT !.name = name, !.stage = "probing",
                                    !.process = "running"]
    /\ UNCHANGED <<serverVars, adapterVars, providers, suite, script, now,
                   clientVars, handled>>

\* iteration i of "for i in range(max_retries)", with the outcome of its
\* httpx.get; the loop ended by break or by exhaustion goes on to the
\* yield
probe(f, outcome) ==
    LET i == Len(f.probes)
        probed == [f EXCEPT !.probes = Append(@, outcome)]
    IN  IF outcome.kind = "raise"
                /\ outcome.exc \in {"ConnectError", "TimeoutException"}
        THEN IF i = max_retries - 1
             THEN [probed EXCEPT !.stage = "raised", !.process = "terminated"]
             ELSE [probed EXCEPT !.sleeps = @ + 1]
        ELSE IF outcome.status_code = 200 \/ i = max_retries - 1
             THEN [probed EXCEPT !.stage = "yielded"]
             ELSE probed

fixture_probe(outcome) ==
    /\ fixture.stage = "probing"
    /\ fixture' = probe(fixture, outcome)
    /\ UNCHANGED <<serverVars, adapterVars, providers, suite, script, now,
                   clientVars, handled>>

\* the test is over: the code after the yield terminates the server
fixture_cleanup ==
    /\ fixture.stage = "yielded"
    /\ fixture' = [fixture EXCEPT !.stage = "closed", !.process = "terminated"]
    /\ UNCHANGED <<serverVars, adapterVars, providers, suite, script, now,
                   clientVars, handled>>

NextFixture ==
    \/ \E name \in Fixtures : fixture_start(name)
    \/ \E outcome \in ProbeOutcomes : fixture_probe(outcome)
    \/ fixture_cleanup

SpecFixture == Init /\ [][NextFixture]_vars

\* some probe of the fixture was answered with 200
Healthy(f) == \E i \in 1..Len(f.probes) : f.probes[i] = Answered(200)

\* C29: a fixture yields the base URL only after a probe answered 200;
\* it makes at most 5 probes, and when the last of them is made without
\* any having answered 200 it has terminated the server process and
\* raised RuntimeError.
C29_YieldOnlyHealthy ==
    /\ fixture.stage \in {"yielded", "closed"} => Healthy(fixture)
    /\ Len(fixture.probes) <= max_retries
    /\ (Len(fixture.probes) = max_retries /\ ~Healthy(fixture)) =>
          /\ fixture.stage = "raised"
          /\ fixture.process = "terminated"

\* ---------------------------------------------------------------------
\* The fetch script: src/scripts/fetch_latest_eval_hub_server.py

\* detect_platform: platform.system() and platform.machine() to the
\* (platform_name, architecture) of the wheel
detect_platform(system, machine) ==
    IF system = "Darwin"
    THEN IF machine = "arm64" THEN Return(<<"macosx", "arm64">>)
         ELSE IF machine = "x86_64" THEN Return(<<"macosx", "x86_64">>)
         ELSE Raise("PlatformNotSupportedError")
    ELSE IF system = "Linux"
    THEN IF machine \in {"aarch64", "arm64"} THEN Return(<<"manylinux", "aarch64">>)
         ELSE IF machine = "x86_64" THEN Return(<<"manylinux", "x86_64">>)
         ELSE Raise("PlatformNotSupportedError")
    ELSE IF system = "Windows" THEN Return(<<"win", "amd64">>)
    ELSE Raise("PlatformNotSupportedError")

\* get_github_token: the environment variable if it is not empty, else
\* the repository's .github_token, else ~/.github_token, else None
get_github_token(environ, repo_token_file, home_token_file) ==
    IF environ # None /\ TheValue(environ) # "" THEN environ
    ELSE IF repo_token_file # None THEN repo_token_file
    ELSE IF home_token_file # None THEN home_token_file
    ELSE None

\* fetch_latest_workflow_run, by what the GitHub API answers
fetch_latest_workflow_run(runs) ==
    CASE runs = "found" -> Return("latest_run")
      [] runs = "empty" -> Raise("ArtifactNotFoundError")
      [] runs = "404" -> Raise("ArtifactNotFoundError")
      [] OTHER -> Raise("GithubException")

\* variant: the archive is requested before the token is looked at
download_artifact_eager(token, listed, http, whl) ==
    IF ~listed
    THEN [out |-> Raise("ArtifactNotFoundError"), requests |-> <<"get_artifacts">>]
    ELSE IF http # "ok"
    THEN [out |-> Raise("HTTPStatusError"),
          requests |-> <<"get_artifacts", "archive_download">>]
    ELSE IF token = None
    THEN [out |-> Raise("ValueError"),
          requests |-> <<"get_artifacts", "archive_download">>]
    ELSE IF ~whl
    THEN [out |-> Raise("ArtifactNotFoundError"),
          requests |-> <<"get_artifacts", "archive_download">>]
    ELSE [out |-> Return("whl_path"),
          requests |-> <<"get_artifacts", "archive_download">>]

\* download_artifact: its outcome and the requests it makes. listed: the
\* run has the artifact of that name; http: how the GET of the archive
\* ends; whl: the archive holds a .whl file
download_artifact(token, listed, http, whl) ==
    IF ~listed
    THEN [out |-> Raise("ArtifactNotFoundError"), requests |-> <<"get_artifacts">>]
    ELSE IF token = None
    THEN [out |-> Raise("ValueError"), requests |-> <<"get_artifacts">>]
    ELSE IF http # "ok"
    THEN [out |-> Raise("HTTPStatusError"),
          requests |-> <<"get_artifacts", "archive_download">>]
    ELSE IF ~whl
    THEN [out |-> Raise("ArtifactNotFoundError"),
          requests |-> <<"get_artifacts", "archive_download">>]
    ELSE [out |-> Return("whl_path"),
          requests |-> <<"get_artifacts", "archive_download">>]

\* install_wheel, by what "uv" does: absent from PATH, failing, done
install_wheel(uv) ==
    CASE uv = "absent" -> Raise("FileNotFoundError")
      [] uv = "fails" -> Raise("CalledProcessError")
      [] OTHER -> Return("installed")

\* the except clauses of main: the value returned for the exception
main_except(exc) ==
    CASE exc = "PlatformNotSupportedError" -> 1
      [] exc = "ArtifactNotFoundError" -> 1
      [] exc = "GithubException" -> 1
      [] exc = "FileNotFoundError" -> 1
      [] exc = "CalledProcessError" -> 1
      [] OTHER -> 1

\* the machines, token sources and answers main is run against
Environments ==
    [system : {"Darwin", "Linux", "FreeBSD"},
     machine : {"arm64", "riscv64"},
     environ : {None, Some(""), Some("ghp_env")},
     repo_token_file : {None, Some("ghp_repo")},
     home_token_file : {None, Some("ghp_home")},
     runs : {"found", "empty", "404", "403"},
     listed : BOOLEAN,
     http : {"ok", "error"},
     whl : BOOLEAN,
     uv : {"absent", "fails", "ok"}]

\* the step has run with outcome out: on to the step next, or out of
\* main through the except clause of the exception
After(name, out, next) ==
    LET ran == [script EXCEPT
                  !.steps = Append(@, [name |-> name, ok |-> out.kind = "return"])]
    IN  IF out.kind = "return"
        THEN [ran EXCEPT !.stage = next]
        ELSE [ran EXCEPT !.stage = "exited", !.code = Some(main_except(out.exc))]

\* main is called, on some machine and against some answers
main_call ==
    /\ script.stage = "idle"
    /\ \E env \in Environments :
          script' = [NotRun EXCEPT !.stage = "detect_platform", !.env = env]
    /\ UNCHANGED <<serverVars, adapterVars, providers, suite, fixture, now,
                   clientVars, handled>>

main_detect_platform ==
    /\ script.stage = "detect_platform"
    /\ script' = After("detect_platform",
                       detect_platform(script.env.system, script.env.machine),
                       "get_github_token")
    /\ UNCHANGED <<serverVars, adapterVars, providers, suite, fixture, now,
                   clientVars, handled>>

main_get_github_token ==
    /\ script.stage = "get_github_token"
    /\ LET token == get_github_token(script.env.environ,
                                     script.env.repo_token_file,
                                     script.env.home_token_file)
       IN  script' = [After("get_github_token", Return(token),
                            "fetch_latest_workflow_run")
                        EXCEPT !.token = token]
    /\ UNCHANGED <<serverVars, adapterVars, providers, suite, fixture, now,
                   clientVars, handled>>

main_fetch_latest_workflow_run ==
    /\ script.stage = "fetch_latest_workflow_run"
    /\ script' = [After("fetch_latest_workflow_run",
                        fetch_latest_workflow_run(script.env.runs),
                        "download_artifact")
                    EXCEPT !.requests = Append(@, "get_runs")]
    /\ UNCHANGED <<serverVars, adapterVars, providers, suite, fixture, now,
                   clientVars, handled>>

main_download_artifact ==
    /\ script.stage = "download_artifact"
    /\ LET d == download_artifact(script.token, script.env.listed,
                                  script.env.http, script.env.whl)
       IN  script' = [After("download_artifact", d.out, "install_wheel")
                        EXCEPT !.requests = @ \o d.requests]
    /\ UNCHANGED <<serverVars, adapterVars, providers, suite, fixture, now,
                   clientVars, handled>>

main_install_wheel ==
    /\ script.stage = "install_wheel"
    /\ LET out == install_wheel(script.env.uv)
           ran == After("install_wheel", out, "exited")
       IN  script' = IF out.kind = "return"
                     THEN [ran EXCEPT !.installed = TRUE, !.code = Some(0)]
                     ELSE ran
    /\ UNCHANGED <<serverVars, adapterVars, providers, suite, fixture, now,
                   clientVars, handled>>

NextScript ==
    \/ main_call
    \/ main_detect_platform
    \/ main_get_github_token
    \/ main_fetch_latest_workflow_run
    \/ main_download_artifact
    \/ main_install_wheel

SpecScript == Init /\ [][NextScript]_vars

StepOrder == <<"detect_platform", "get_github_token",
               "fetch_latest_workflow_run", "download_artifact",
               "install_wheel">>

\* C30: the steps main has run are the first steps of the order detect
\* platform, resolve token, find run, download artifact, install wheel,
\* each one run once and every one but the last run having succeeded;
\* without a token no archive download is requested; and main is over
\* exactly with a return value, 0 if the install succeeded and 1 if any
\* step failed.
C30_StepsInOrder ==
    /\ Len(script.steps) <= Len(StepOrder)
    /\ \A i \in 1..Len(script.steps) :
          /\ script.steps[i].name = StepOrder[i]
          /\ i < Len(script.steps) => script.steps[i].ok
    /\ script.token = None =>
          \A i \in 1..Len(script.requests) :
              script.requests[i] # "archive_download"
    /\ script.stage = "exited" <=> script.code # None
    /\ script.code = Some(0) <=> script.installed
    /\ script.code = Some(1) <=>
          \E i \in 1..Len(script.steps) : ~script.steps[i].ok
    /\ script.installed <=>
          /\ Len(script.steps) = Len(StepOrder)
          /\ \A i \in 1..Len(script.steps) : script.steps[i].ok

\* main run without any token, as far as download_artifact, which found
\* the artifact in the run and gave up before requesting its archive
C30_Witness ==
    /\ script.stage = "exited"
    /\ script.token = None
    /\ script.env.listed
    /\ Len(script.steps) = 4
    /\ script.requests = <<"get_runs", "get_artifacts">>
    /\ script.code = Some(1)

====
